---- MODULE Spec2Model ----
(***************************************************************************)
(* A model of the numeric core of num-traits: widening multiplication,     *)
(* exponentiation by squaring, conversions between integers and floats,    *)
(* checked arithmetic, Euclidean division, checked shifts, the checked     *)
(* iterator folds, the coercion traits and the atomic wrappers.            *)
(*                                                                         *)
(* Most of the library is a set of pure functions over a closed family of  *)
(* kinds.  For these the state of the model is one call: the target        *)
(* pointer width and overflow mode the crate was compiled for, the         *)
(* operation called, the kinds it was instantiated with, its operands and  *)
(* its result.  The atomic wrappers add one shared cell, the position of   *)
(* each thread inside its fetch_saturating_add, and the number of writes   *)
(* other operations may still make.                                        *)
(*                                                                         *)
(* TLC's integers are 32 bits wide, so the kinds are modelled at reduced   *)
(* widths.  Every width is a function of the kind's size_of in bytes, and  *)
(* the arithmetic of a kind depends on nothing but its width and its       *)
(* signedness (two's complement, wrap-around modulo 2^width):              *)
(*   - Bits(k) is BaseBits + log2(size_of k): it keeps the order of the    *)
(*     widths, which is all that the conversions, the checked operations   *)
(*     and the shifts read;                                                *)
(*   - LimbBits(k) is WideByteBits * size_of k: it keeps "u16 is exactly   *)
(*     twice u8", which is what the native widening multiplication reads;  *)
(*   - the u128 schoolbook multiplication runs on halves of HalfBits bits  *)
(*     where the source has 64.                                            *)
(***************************************************************************)
EXTENDS Integers, Sequences, FiniteSets, TLC

VARIABLES tpw, ovf, op, kT, kU, a, b, res, cell, thr, budget

vars == <<tpw, ovf, op, kT, kU, a, b, res, cell, thr, budget>>

(***************************************************************************)
(* Bounds of the model.                                                    *)
(***************************************************************************)
\* model bits of a one-byte kind (i8, u8) in the ordered ladder of widths
BaseBits == 2
\* model bits per byte in the doubling ladder of the native widening_mul
WideByteBits == 1
\* model bits of one half of a u128 (the source's 64)
HalfBits == 3
\* largest exponent handed to pow and checked_pow
MaxExp == 9
\* widest $doublelimb, in model bits, that the native widening_mul is run at
MaxWideBits == 16

\* fraction bits of the smallest positive f64 of the model: floats are kept
\* as integer numerators over 2^FracBits
FracBits == 2

(***************************************************************************)
(* Results of a call.                                                      *)
(***************************************************************************)
None == [tag |-> "None", val |-> 0, val2 |-> 0]

Some(v) == [tag |-> "Some", val |-> v, val2 |-> 0]

Value(v) == [tag |-> "Value", val |-> v, val2 |-> 0]

Pair(x, y) == [tag |-> "Pair", val |-> x, val2 |-> y]

Panic == [tag |-> "Panic", val |-> 0, val2 |-> 0]

NoCall == [tag |-> "NoCall", val |-> 0, val2 |-> 0]

(***************************************************************************)
(* Bit-level helpers: the primitive integer operators of the language.     *)
(***************************************************************************)
Pow2(n) == 2 ^ n

Abs(x) == IF x < 0 THEN -x ELSE x

\* x & y on non-negative x, y of at most n bits
RECURSIVE BitAnd(_, _, _)
BitAnd(x, y, n) ==
    IF n = 0 THEN 0
    ELSE (IF x % 2 = 1 /\ y % 2 = 1 THEN 1 ELSE 0)
         + 2 * BitAnd(x \div 2, y \div 2, n - 1)

\* x | y on non-negative x, y of at most n bits
RECURSIVE BitOr(_, _, _)
BitOr(x, y, n) ==
    IF n = 0 THEN 0
    ELSE (IF x % 2 = 1 \/ y % 2 = 1 THEN 1 ELSE 0)
         + 2 * BitOr(x \div 2, y \div 2, n - 1)

(***************************************************************************)
(* The kinds.                                                              *)
(***************************************************************************)
SignedKinds == {"i8", "i16", "i32", "i64", "isize"}

UnsignedKinds == {"u8", "u16", "u32", "u64", "usize"}

IntKinds == SignedKinds \cup UnsignedKinds

\* target_pointer_width in bytes: the crate is compiled for 16, 32 or 64 bits
PointerWidths == {2, 4, 8}

\* the build's overflow checks: an overflowing primitive operation panics
\* where they are on (debug) and wraps where they are off (release)
OverflowChecks == {"panic", "wrap"}

IsSigned(k) == k \in SignedKinds \cup {"i128"}

\* size_of::<k>() in bytes, under the target pointer width of the build
SizeOf(k) ==
    CASE k \in {"i8", "u8"} -> 1
      [] k \in {"i16", "u16"} -> 2
      [] k \in {"i32", "u32", "f32"} -> 4
      [] k \in {"i64", "u64", "f64"} -> 8
      [] k \in {"i128", "u128"} -> 16
      [] k \in {"isize", "usize"} -> tpw

Log2(n) == CHOOSE r \in 0..4 : Pow2(r) = n

\* k::BITS in the ordered ladder
Bits(k) == BaseBits + Log2(SizeOf(k))

\* k::MIN and k::MAX
MinOf(k) == IF IsSigned(k) THEN -Pow2(Bits(k) - 1) ELSE 0

MaxOf(k) == IF IsSigned(k) THEN Pow2(Bits(k) - 1) - 1 ELSE Pow2(Bits(k)) - 1

ValuesOf(k) == MinOf(k)..MaxOf(k)

InRange(v, k) == MinOf(k) <= v /\ v <= MaxOf(k)

\* v as k: the value of kind k congruent to v modulo 2^BITS
AsCast(v, k) == ((v - MinOf(k)) % Pow2(Bits(k))) + MinOf(k)

(***************************************************************************)
(* The initial state: a build for one pointer width, nothing called yet.   *)
(***************************************************************************)
\* the threads that share an atomic, and a thread that is not inside a call
Threads == {"t1", "t2"}

Idle == [pc |-> "idle", value |-> 0, order |-> "Relaxed", base |-> 0, ret |-> 0]

Init ==
    /\ tpw \in PointerWidths
    /\ ovf \in OverflowChecks
    /\ op = "none"
    /\ kT = "u8"
    /\ kU = "u8"
    /\ a = 0
    /\ b = 0
    /\ res = NoCall
    /\ cell = 0
    /\ thr = [t \in Threads |-> Idle]
    /\ budget = 0

\* one call: operation o instantiated at (t, u), on operands (x, y), gave r
Call(o, t, u, x, y, r) ==
    /\ op' = o
    /\ kT' = t
    /\ kU' = u
    /\ a' = x
    /\ b' = y
    /\ res' = r
    /\ UNCHANGED <<tpw, ovf, cell, thr, budget>>

\* the caller has taken the result (an atomic: every thread is out of its
\* call and the atomic is dropped); the next call can be made
Return ==
    /\ op # "none"
    /\ \A t \in Threads : thr[t].pc \in {"idle", "done", "panicked"}
    /\ op' = "none"
    /\ kT' = "u8"
    /\ kU' = "u8"
    /\ a' = 0
    /\ b' = 0
    /\ res' = NoCall
    /\ cell' = 0
    /\ thr' = [t \in Threads |-> Idle]
    /\ budget' = 0
    /\ UNCHANGED <<tpw, ovf>>

(***************************************************************************)
(* Widening multiplication of u128: schoolbook on halves.                  *)
(***************************************************************************)
U128Bits == 2 * HalfBits

U128Max == Pow2(U128Bits) - 1

U128Values == 0..U128Max

\* const LOW_MASK: u128 = u64::MAX as u128
LOW_MASK == Pow2(HalfBits) - 1

\* u128::wrapping_mul, wrapping_add, wrapping_shl, wrapping_shr
WrappingMul128(x, y) == (x * y) % Pow2(U128Bits)

\* a mutant: the sum is kept in one bit less than the word
WrappingAdd128_Narrow(x, y) == (x + y) % Pow2(U128Bits - 1)

WrappingAdd128(x, y) == (x + y) % Pow2(U128Bits)

WrappingShl128(x, n) == (x * Pow2(n % U128Bits)) % Pow2(U128Bits)

WrappingShr128(x, n) == x \div Pow2(n % U128Bits)

\* a mutant: the carry out of the low partial product is dropped
WideningMulU128_DropCarry(x, y) ==
    LET lhs_lo0 == BitAnd(x, LOW_MASK, U128Bits)
        lhs_hi0 == x \div Pow2(HalfBits)
        rhs_lo0 == BitAnd(y, LOW_MASK, U128Bits)
        rhs_hi0 == y \div Pow2(HalfBits)
        l4 == WrappingMul128(lhs_lo0, rhs_lo0)
        rhs_lo1 == WrappingMul128(rhs_lo0, lhs_hi0)
        lhs_lo1 == WrappingAdd128(WrappingMul128(lhs_lo0, rhs_hi0),
                                  BitAnd(rhs_lo1, LOW_MASK, U128Bits))
        lhs_hi1 == WrappingMul128(lhs_hi0, rhs_hi0)
        rhs_hi1 == WrappingShr128(lhs_lo1, HalfBits)
        rhs_lo2 == rhs_lo1 \div Pow2(HalfBits)
        lhs_hi2 == WrappingAdd128(lhs_hi1, rhs_lo2)
        lhs_lo2 == WrappingShl128(lhs_lo1, HalfBits)
        l4m == BitAnd(l4, LOW_MASK, U128Bits)
        lhs_lo3 == BitOr(lhs_lo2, l4m, U128Bits)
        lhs_hi3 == WrappingAdd128(lhs_hi2, rhs_hi1)
    IN  Pair(lhs_lo3, lhs_hi3)

\* <u128 as WideningMul>::widening_mul, statement by statement
WideningMulU128(x, y) ==
    LET lhs_lo0 == BitAnd(x, LOW_MASK, U128Bits)
        lhs_hi0 == x \div Pow2(HalfBits)
        rhs_lo0 == BitAnd(y, LOW_MASK, U128Bits)
        rhs_hi0 == y \div Pow2(HalfBits)
        l4 == WrappingMul128(lhs_lo0, rhs_lo0)
        rhs_lo1 == WrappingAdd128(WrappingMul128(rhs_lo0, lhs_hi0),
                                  WrappingShr128(l4, HalfBits))
        lhs_lo1 == WrappingAdd128(WrappingMul128(lhs_lo0, rhs_hi0),
                                  BitAnd(rhs_lo1, LOW_MASK, U128Bits))
        lhs_hi1 == WrappingMul128(lhs_hi0, rhs_hi0)
        rhs_hi1 == WrappingShr128(lhs_lo1, HalfBits)
        rhs_lo2 == rhs_lo1 \div Pow2(HalfBits)
        lhs_hi2 == WrappingAdd128(lhs_hi1, rhs_lo2)
        lhs_lo2 == WrappingShl128(lhs_lo1, HalfBits)
        l4m == BitAnd(l4, LOW_MASK, U128Bits)
        lhs_lo3 == BitOr(lhs_lo2, l4m, U128Bits)
        lhs_hi3 == WrappingAdd128(lhs_hi2, rhs_hi1)
    IN  Pair(lhs_lo3, lhs_hi3)

WideningMulU128Call ==
    /\ op = "none"
    /\ \E x \in U128Values, y \in U128Values :
          Call("widening_mul_u128", "u128", "u128", x, y, WideningMulU128(x, y))

NextWide128 == WideningMulU128Call \/ Return

SpecWide128 == Init /\ [][NextWide128]_vars

\* C1: for u128, widening_mul(a, b) = (low, high) with
\* low + high * 2^128 = a * b for every pair of operands, both words in range;
\* in particular (0,0) -> (0,0), (MAX,1) -> (MAX,0), (MAX,2) -> (MAX-1,1) and
\* (MAX,MAX) -> (1,MAX-1).
C1_U128Exact ==
    op = "widening_mul_u128" =>
        /\ res.tag = "Pair"
        /\ res.val \in U128Values
        /\ res.val2 \in U128Values
        /\ res.val + res.val2 * Pow2(U128Bits) = a * b
        /\ (a = 0 /\ b = 0) => res = Pair(0, 0)
        /\ (a = U128Max /\ b = 1) => res = Pair(U128Max, 0)
        /\ (a = U128Max /\ b = 2) => res = Pair(U128Max - 1, 1)
        /\ (a = U128Max /\ b = U128Max) => res = Pair(1, U128Max - 1)

C1_Witness ==
    /\ op = "widening_mul_u128"
    /\ a = U128Max
    /\ b = U128Max
    /\ res = Pair(1, U128Max - 1)

(***************************************************************************)
(* Widening multiplication through a native wider type (widening_impl!).   *)
(***************************************************************************)
\* k::BITS in the doubling ladder
LimbBits(k) == WideByteBits * SizeOf(k)

\* the kinds widening_impl! is instantiated for under this pointer width
WideningKinds == {"u8", "u16", "u32", "u64", "usize"}

\* the $doublelimb each instantiation names
DoubleLimb(k) ==
    CASE k = "u8" -> "u16"
      [] k = "u16" -> "u32"
      [] k = "u32" -> "u64"
      [] k = "u64" -> "u128"
      [] k = "usize" /\ tpw = 2 -> "u16"
      [] k = "usize" /\ tpw = 4 -> "u64"
      [] k = "usize" /\ tpw = 8 -> "u128"

LimbMax(k) == Pow2(LimbBits(k)) - 1

LimbValues(k) == 0..LimbMax(k)

\* (self as $doublelimb).wrapping_mul(rhs as $doublelimb)
WideProduct(x, y, k) == (x * y) % Pow2(LimbBits(DoubleLimb(k)))

\* wide >> <$limb>::BITS, in the $doublelimb type: a shift by the type's own
\* width or more overflows; it panics where overflow checks are on and
\* shifts by the amount modulo the width where they are off
ShiftRight(wide, n, dbits) ==
    IF n < dbits THEN Value(wide \div Pow2(n))
    ELSE IF ovf = "panic" THEN Panic
    ELSE Value(wide \div Pow2(n % dbits))

\* widening_impl!'s widening_mul
WideningMul(x, y, k) ==
    LET wide == WideProduct(x, y, k)
        lo == wide % Pow2(LimbBits(k))
        s == ShiftRight(wide, LimbBits(k), LimbBits(DoubleLimb(k)))
    IN  IF s.tag = "Panic" THEN Panic
        ELSE Pair(lo, s.val % Pow2(LimbBits(k)))

WideningMulCall ==
    /\ op = "none"
    /\ \E k \in WideningKinds :
         /\ LimbBits(DoubleLimb(k)) <= MaxWideBits
         /\ \E x \in LimbValues(k), y \in LimbValues(k) :
              Call("widening_mul", k, DoubleLimb(k), x, y, WideningMul(x, y, k))

NextWiden == WideningMulCall \/ Return

SpecWiden == Init /\ [][NextWiden]_vars

\* C2: on the native double-width path (u8, u16, u32, u64 and usize under
\* each pointer width) the intermediate type has exactly twice the operand's
\* bits, so widening_mul(a, b) = (low, high) with low + high * 2^W = a * b,
\* and (MAX,MAX) -> (1,MAX-1), (MAX,2) -> (MAX-1,1), (MAX,1) -> (MAX,0).
C2_NativeExact ==
    op = "widening_mul" =>
        /\ res.tag = "Pair"
        /\ res.val \in LimbValues(kT)
        /\ res.val2 \in LimbValues(kT)
        /\ res.val + res.val2 * Pow2(LimbBits(kT)) = a * b
        /\ (a = LimbMax(kT) /\ b = LimbMax(kT)) => res = Pair(1, LimbMax(kT) - 1)
        /\ (a = LimbMax(kT) /\ b = 2) => res = Pair(LimbMax(kT) - 1, 1)
        /\ (a = LimbMax(kT) /\ b = 1) => res = Pair(LimbMax(kT), 0)

(***************************************************************************)
(* Exponentiation by squaring: pow and checked_pow.                        *)
(***************************************************************************)
\* T::one()
One == 1

\* the exponents of kind U that the model hands to pow
ExpValues(u) == 0..(IF MaxOf(u) < MaxExp THEN MaxOf(u) ELSE MaxExp)

\* a mutant: checked_mul that wraps instead of reporting the overflow
CheckedMul_Wraps(x, y, k) == Some(AsCast(x * y, k))

\* <$t>::checked_mul(*self, *v)
CheckedMul(x, y, k) == IF InRange(x * y, k) THEN Some(x * y) ELSE None

\* x * y on a primitive kind: an overflow panics or wraps with the build
MulPrim(x, y, k) ==
    IF InRange(x * y, k) THEN Value(x * y)
    ELSE IF ovf = "panic" THEN Panic
    ELSE Value(AsCast(x * y, k))

\* x * y on Wrapping<k>
MulWrapping(x, y, k) == Value(AsCast(x * y, k))

\* the operator * of T: wr is TRUE for T = Wrapping<k>
Mul(x, y, k, wr) == IF wr THEN MulWrapping(x, y, k) ELSE MulPrim(x, y, k)

\* while exp & U::one() == U::zero() { base = base.clone() * base; exp = exp >> 1; }
RECURSIVE PowEvenLoop(_, _, _, _, _)
PowEvenLoop(base, exp, k, u, wr) ==
    IF BitAnd(exp, One, Bits(u)) = 0
    THEN LET sq == Mul(base, base, k, wr)
         IN  IF sq.tag = "Panic" THEN [tag |-> "Panic", base |-> 0, exp |-> 0]
             ELSE PowEvenLoop(sq.val, exp \div 2, k, u, wr)
    ELSE [tag |-> "Value", base |-> base, exp |-> exp]

\* while exp > U::one() { exp = exp >> 1; base = base.clone() * base;
\*                        if exp & U::one() == U::one() { acc = acc * base.clone(); } }
RECURSIVE PowAccLoop(_, _, _, _, _, _)
PowAccLoop(base, exp, acc, k, u, wr) ==
    IF exp > One
    THEN LET e == exp \div 2
             sq == Mul(base, base, k, wr)
         IN  IF sq.tag = "Panic" THEN Panic
             ELSE IF BitAnd(e, One, Bits(u)) = One
                  THEN LET m == Mul(acc, sq.val, k, wr)
                       IN  IF m.tag = "Panic" THEN Panic
                           ELSE PowAccLoop(sq.val, e, m.val, k, u, wr)
                  ELSE PowAccLoop(sq.val, e, acc, k, u, wr)
    ELSE Value(acc)

\* a mutant: the accumulator starts at one instead of base
Pow_AccFromOne(base, exp, k, u, wr) ==
    IF exp = 0 THEN Value(One)
    ELSE LET ev == PowEvenLoop(base, exp, k, u, wr)
         IN  IF ev.tag = "Panic" THEN Panic
             ELSE IF ev.exp = One THEN Value(ev.base)
             ELSE PowAccLoop(ev.base, ev.exp, One, k, u, wr)

\* a mutant: every product wraps, whatever the build and the kind
Pow_AlwaysWraps(base, exp, k, u, wr) ==
    IF exp = 0 THEN Value(One)
    ELSE LET ev == PowEvenLoop(base, exp, k, u, TRUE)
         IN  IF ev.exp = One THEN Value(ev.base)
             ELSE PowAccLoop(ev.base, ev.exp, ev.base, k, u, TRUE)

\* pow(base, exp)
Pow(base, exp, k, u, wr) ==
    IF exp = 0 THEN Value(One)
    ELSE LET ev == PowEvenLoop(base, exp, k, u, wr)
         IN  IF ev.tag = "Panic" THEN Panic
             ELSE IF ev.exp = One THEN Value(ev.base)
             ELSE PowAccLoop(ev.base, ev.exp, ev.base, k, u, wr)

\* while exp & U::one() == U::zero() { base = base.checked_mul(&base)?; exp = exp >> 1; }
RECURSIVE CheckedPowEvenLoop(_, _, _, _)
CheckedPowEvenLoop(base, exp, k, u) ==
    IF BitAnd(exp, One, Bits(u)) = 0
    THEN LET sq == CheckedMul(base, base, k)
         IN  IF sq.tag = "None" THEN [tag |-> "None", base |-> 0, exp |-> 0]
             ELSE CheckedPowEvenLoop(sq.val, exp \div 2, k, u)
    ELSE [tag |-> "Some", base |-> base, exp |-> exp]

\* while exp > U::one() { exp = exp >> 1; base = base.checked_mul(&base)?;
\*                        if exp & U::one() == U::one() { acc = acc.checked_mul(&base)?; } }
RECURSIVE CheckedPowAccLoop(_, _, _, _, _)
CheckedPowAccLoop(base, exp, acc, k, u) ==
    IF exp > One
    THEN LET e == exp \div 2
             sq == CheckedMul(base, base, k)
         IN  IF sq.tag = "None" THEN None
             ELSE IF BitAnd(e, One, Bits(u)) = One
                  THEN LET m == CheckedMul(acc, sq.val, k)
                       IN  IF m.tag = "None" THEN None
                           ELSE CheckedPowAccLoop(sq.val, e, m.val, k, u)
                  ELSE CheckedPowAccLoop(sq.val, e, acc, k, u)
    ELSE Some(acc)

\* a mutant: the textbook loop, which squares base once more after the last
\* exponent bit has been used
RECURSIVE CheckedPowExtraLoop(_, _, _, _, _)
CheckedPowExtraLoop(base, exp, acc, k, u) ==
    IF exp > 0
    THEN LET m == IF BitAnd(exp, One, Bits(u)) = One
                  THEN CheckedMul(acc, base, k) ELSE Some(acc)
             sq == CheckedMul(base, base, k)
         IN  IF m.tag = "None" \/ sq.tag = "None" THEN None
             ELSE CheckedPowExtraLoop(sq.val, exp \div 2, m.val, k, u)
    ELSE Some(acc)

CheckedPow_ExtraSquare(base, exp, k, u) ==
    CheckedPowExtraLoop(base, exp, One, k, u)

\* a mutant: the exponent-zero case squares base before it returns one
CheckedPow_SquaresFirst(base, exp, k, u) ==
    IF exp = 0
    THEN IF CheckedMul(base, base, k).tag = "None" THEN None ELSE Some(One)
    ELSE LET ev == CheckedPowEvenLoop(base, exp, k, u)
         IN  IF ev.tag = "None" THEN None
             ELSE IF ev.exp = One THEN Some(ev.base)
             ELSE CheckedPowAccLoop(ev.base, ev.exp, ev.base, k, u)

\* checked_pow(base, exp)
CheckedPow(base, exp, k, u) ==
    IF exp = 0 THEN Some(One)
    ELSE LET ev == CheckedPowEvenLoop(base, exp, k, u)
         IN  IF ev.tag = "None" THEN None
             ELSE IF ev.exp = One THEN Some(ev.base)
             ELSE CheckedPowAccLoop(ev.base, ev.exp, ev.base, k, u)

PowCall ==
    /\ op = "none"
    /\ \E k \in IntKinds, u \in UnsignedKinds :
         \E x \in ValuesOf(k), e \in ExpValues(u) :
           Call("pow", k, u, x, e, Pow(x, e, k, u, FALSE))

PowWrappingCall ==
    /\ op = "none"
    /\ \E k \in IntKinds, u \in UnsignedKinds :
         \E x \in ValuesOf(k), e \in ExpValues(u) :
           Call("pow_wrapping", k, u, x, e, Pow(x, e, k, u, TRUE))

CheckedPowCall ==
    /\ op = "none"
    /\ \E k \in IntKinds, u \in UnsignedKinds :
         \E x \in ValuesOf(k), e \in ExpValues(u) :
           Call("checked_pow", k, u, x, e, CheckedPow(x, e, k, u))

NextPow == PowCall \/ PowWrappingCall \/ CheckedPowCall \/ Return

SpecPow == Init /\ [][NextPow]_vars

\* base multiplied by itself n times, exactly; the multiplication stops once
\* the magnitude has passed lim (it cannot come back: |base| >= 2 there)
RECURSIVE PowerSat(_, _, _)
PowerSat(base, n, lim) ==
    IF n = 0 THEN 1
    ELSE LET p == PowerSat(base, n - 1, lim)
         IN  IF Abs(p) > lim THEN p ELSE p * base

\* the exact power base^n when it is a value of kind k
Representable(base, n, k) == InRange(PowerSat(base, n, Pow2(Bits(k))), k)

\* base multiplied by itself n times modulo 2^BITS
RECURSIVE PowerMod(_, _, _)
PowerMod(base, n, k) ==
    IF n = 0 THEN AsCast(1, k)
    ELSE AsCast(PowerMod(base, n - 1, k) * base, k)

\* base multiplied by itself n times with T's own operator *
RECURSIVE NaivePow(_, _, _, _)
NaivePow(base, n, k, wr) ==
    IF n = 0 THEN Value(One)
    ELSE LET p == NaivePow(base, n - 1, k, wr)
         IN  IF p.tag = "Panic" THEN Panic ELSE Mul(p.val, base, k, wr)

\* C3: checked_pow(base, exp) is Some(base^exp) whenever base^exp is a value
\* of the base kind and None otherwise: no spurious None from an
\* intermediate squaring (results equal to MIN included), and never a
\* wrapped or partial value.
C3_CheckedPowExact ==
    op = "checked_pow" =>
        res = IF Representable(a, b, kT)
              THEN Some(PowerSat(a, b, Pow2(Bits(kT))))
              ELSE None

\* checked_pow returned Some(MIN) of a signed kind from an exponent of 3 or more
C3_Witness ==
    /\ op = "checked_pow"
    /\ IsSigned(kT)
    /\ b >= 3
    /\ res = Some(MinOf(kT))

\* C4: pow(base, exp) equals base multiplied by itself exp times, for every
\* base and every unsigned exponent: exactly base^exp whenever that is
\* representable, and base^exp mod 2^W with wrapping multiplication.
C4_PowIsRepeatedMul ==
    op \in {"pow", "pow_wrapping"} =>
        /\ res = NaivePow(a, b, kT, op = "pow_wrapping")
        /\ Representable(a, b, kT) =>
               res = Value(PowerSat(a, b, Pow2(Bits(kT))))
        /\ op = "pow_wrapping" => res = Value(PowerMod(a, b, kT))

\* a wrapping pow whose exact power is not representable and wrapped to a
\* non-zero value, from an exponent that takes both loops
C4_Witness ==
    /\ op = "pow_wrapping"
    /\ b >= 5
    /\ ~Representable(a, b, kT)
    /\ res.tag = "Value"
    /\ res.val # 0

(***************************************************************************)
(* Fallible integer conversion: ToPrimitive, FromPrimitive, NumCast, cast. *)
(***************************************************************************)
\* a mutant: the range test made without the size shortcut
ToIntToInt_NoShortcut(x, src, dst) ==
    LET min == AsCast(MinOf(dst), src)
        max == AsCast(MaxOf(dst), src)
    IN  IF min <= x /\ x <= max THEN Some(AsCast(x, dst)) ELSE None

\* impl_to_primitive_int_to_int!: signed source, signed destination
ToIntToInt(x, src, dst) ==
    LET min == AsCast(MinOf(dst), src)
        max == AsCast(MaxOf(dst), src)
    IN  IF SizeOf(src) <= SizeOf(dst) \/ (min <= x /\ x <= max)
        THEN Some(AsCast(x, dst))
        ELSE None

\* impl_to_primitive_int_to_uint!: signed source, unsigned destination
ToIntToUint(x, src, dst) ==
    LET max == AsCast(MaxOf(dst), "u64")
    IN  IF 0 <= x /\ (SizeOf(src) < SizeOf(dst) \/ AsCast(x, "u64") <= max)
        THEN Some(AsCast(x, dst))
        ELSE None

\* a mutant: the size shortcut also taken for equal sizes
ToUintToInt_SizeLeq(x, src, dst) ==
    LET max == AsCast(MaxOf(dst), "u64")
    IN  IF SizeOf(src) <= SizeOf(dst) \/ AsCast(x, "u64") <= max
        THEN Some(AsCast(x, dst))
        ELSE None

\* impl_to_primitive_uint_to_int!: unsigned source, signed destination
ToUintToInt(x, src, dst) ==
    LET max == AsCast(MaxOf(dst), "u64")
    IN  IF SizeOf(src) < SizeOf(dst) \/ AsCast(x, "u64") <= max
        THEN Some(AsCast(x, dst))
        ELSE None

\* impl_to_primitive_uint_to_uint!: unsigned source, unsigned destination
ToUintToUint(x, src, dst) ==
    LET max == AsCast(MaxOf(dst), src)
    IN  IF SizeOf(src) <= SizeOf(dst) \/ x <= max
        THEN Some(AsCast(x, dst))
        ELSE None

\* x.to_<dst>() for x of kind src: impl_to_primitive_int! / impl_to_primitive_uint!
ToPrimitive(x, src, dst) ==
    CASE IsSigned(src) /\ IsSigned(dst) -> ToIntToInt(x, src, dst)
      [] IsSigned(src) /\ ~IsSigned(dst) -> ToIntToUint(x, src, dst)
      [] ~IsSigned(src) /\ IsSigned(dst) -> ToUintToInt(x, src, dst)
      [] ~IsSigned(src) /\ ~IsSigned(dst) -> ToUintToUint(x, src, dst)

\* a mutant: every source goes through i64, as the signed defaults do
FromPrimitive_ViaI64(n, src, dst) == ToPrimitive(AsCast(n, "i64"), "i64", dst)

\* <dst as FromPrimitive>::from_<src>(n): impl_from_primitive! overrides
\* from_i8..from_i64 and from_u8..from_u64 with n.to_<dst>(); from_isize and
\* from_usize keep the trait's defaults, which go through i64 and u64
FromPrimitive(n, src, dst) ==
    CASE src = "isize" -> ToPrimitive(AsCast(n, "i64"), "i64", dst)
      [] src = "usize" -> ToPrimitive(AsCast(n, "u64"), "u64", dst)
      [] OTHER -> ToPrimitive(n, src, dst)

\* <dst as NumCast>::from(n): n.to_<dst>()
NumCastFrom(n, src, dst) == ToPrimitive(n, src, dst)

\* cast::<src, dst>(n)
Cast(n, src, dst) == NumCastFrom(n, src, dst)

ToPrimitiveCall ==
    /\ op = "none"
    /\ \E src \in IntKinds, dst \in IntKinds :
         \E x \in ValuesOf(src) :
           Call("to", src, dst, x, 0, ToPrimitive(x, src, dst))

FromPrimitiveCall ==
    /\ op = "none"
    /\ \E src \in IntKinds, dst \in IntKinds :
         \E x \in ValuesOf(src) :
           Call("from", src, dst, x, 0, FromPrimitive(x, src, dst))

CastCall ==
    /\ op = "none"
    /\ \E src \in IntKinds, dst \in IntKinds :
         \E x \in ValuesOf(src) :
           Call("cast", src, dst, x, 0, Cast(x, src, dst))

NextCast == ToPrimitiveCall \/ FromPrimitiveCall \/ CastCall \/ Return

SpecCast == Init /\ [][NextCast]_vars

\* C5: for every ordered pair of integer kinds (T, U) and every value t of T,
\* t.to_U(), U::from_T(t) and cast::<T,U>(t) are Some(u) with u numerically
\* equal to t when U::MIN <= t <= U::MAX, and None otherwise; a negative
\* source gives None for every unsigned U; one below U::MIN and one above
\* U::MAX give None while U::MIN and U::MAX themselves succeed.
C5_IntToIntExact ==
    op \in {"to", "from", "cast"} =>
        /\ res = IF MinOf(kU) <= a /\ a <= MaxOf(kU) THEN Some(a) ELSE None
        /\ (a < 0 /\ ~IsSigned(kU)) => res = None
        /\ (a = MinOf(kU) - 1 \/ a = MaxOf(kU) + 1) => res = None
        /\ (a = MinOf(kU) \/ a = MaxOf(kU)) => res = Some(a)

\* an unsigned source one above the MAX of a signed destination of its own size
C5_Witness ==
    /\ op = "cast"
    /\ ~IsSigned(kT)
    /\ IsSigned(kU)
    /\ SizeOf(kT) = SizeOf(kU)
    /\ a = MaxOf(kU) + 1
    /\ res = None

(***************************************************************************)
(* Checked arithmetic: checked_impl! forwards to the primitive's method.   *)
(***************************************************************************)
\* the primitive operators / and % : truncation toward zero
TruncDiv(x, y) ==
    IF (x < 0) = (y < 0) THEN Abs(x) \div Abs(y) ELSE -(Abs(x) \div Abs(y))

TruncRem(x, y) == x - y * TruncDiv(x, y)

\* a mutant: the sum is wrapped, the overflow not reported
CheckedAdd_Wraps(x, y, k) == Some(AsCast(x + y, k))

\* <$t>::checked_add(*self, *v): the wrapped sum unless it overflowed
CheckedAdd(x, y, k) ==
    LET w == AsCast(x + y, k)
    IN  IF w # x + y THEN None ELSE Some(w)

\* <$t>::checked_sub(*self, *v)
CheckedSub(x, y, k) ==
    LET w == AsCast(x - y, k)
    IN  IF w # x - y THEN None ELSE Some(w)

\* <$t>::checked_div(*self, *v)
CheckedDiv(x, y, k) ==
    IF y = 0 \/ (IsSigned(k) /\ x = MinOf(k) /\ y = -1) THEN None
    ELSE Some(TruncDiv(x, y))

CheckedAddCall ==
    /\ op = "none"
    /\ \E k \in IntKinds :
         \E x \in ValuesOf(k), y \in ValuesOf(k) :
           Call("checked_add", k, k, x, y, CheckedAdd(x, y, k))

CheckedSubCall ==
    /\ op = "none"
    /\ \E k \in IntKinds :
         \E x \in ValuesOf(k), y \in ValuesOf(k) :
           Call("checked_sub", k, k, x, y, CheckedSub(x, y, k))

CheckedMulCall ==
    /\ op = "none"
    /\ \E k \in IntKinds :
         \E x \in ValuesOf(k), y \in ValuesOf(k) :
           Call("checked_mul", k, k, x, y, CheckedMul(x, y, k))

CheckedDivCall ==
    /\ op = "none"
    /\ \E k \in IntKinds :
         \E x \in ValuesOf(k), y \in ValuesOf(k) :
           Call("checked_div", k, k, x, y, CheckedDiv(x, y, k))

NextChecked ==
    CheckedAddCall \/ CheckedSubCall \/ CheckedMulCall \/ CheckedDivCall \/ Return

SpecChecked == Init /\ [][NextChecked]_vars

\* the quotient of x by y # 0 truncated toward zero: the q with
\* x = q * y + r, |r| < |y| and r zero or of the sign of x
IsTruncQuotient(q, x, y) ==
    LET r == x - q * y
    IN  Abs(r) < Abs(y) /\ (r = 0 \/ (r < 0) = (x < 0))

\* the exact result of an operation when it is defined and a value of kind k
ExactOrNone(defined, v, k) == IF defined /\ InRange(v, k) THEN Some(v) ELSE None

\* C6: for every integer kind, checked_add, checked_sub, checked_mul and
\* checked_div return Some(r) with r the exact mathematical result (the
\* quotient truncated toward zero for div) when the divisor is non-zero and
\* r lies in [MIN, MAX], and None otherwise; checked_add(MAX, 1),
\* checked_mul(MAX, 2), checked_div(1, 0) and signed checked_div(MIN, -1) are None.
C6_CheckedExact ==
    /\ op = "checked_add" => res = ExactOrNone(TRUE, a + b, kT)
    /\ op = "checked_sub" => res = ExactOrNone(TRUE, a - b, kT)
    /\ op = "checked_mul" => res = ExactOrNone(TRUE, a * b, kT)
    /\ op = "checked_div" =>
         /\ b = 0 => res = None
         /\ b # 0 =>
              \E q \in (-Abs(a))..Abs(a) :
                 IsTruncQuotient(q, a, b) /\ res = ExactOrNone(TRUE, q, kT)
    /\ (op = "checked_add" /\ a = MaxOf(kT) /\ b = 1) => res = None
    /\ (op = "checked_mul" /\ a = MaxOf(kT) /\ b = 2) => res = None
    /\ (op = "checked_div" /\ a = 1 /\ b = 0) => res = None
    /\ (op = "checked_div" /\ IsSigned(kT) /\ a = MinOf(kT) /\ b = -1) => res = None

\* the one division whose exact quotient is not a value of the kind
C6_Witness ==
    /\ op = "checked_div"
    /\ IsSigned(kT)
    /\ a = MinOf(kT)
    /\ b = -1
    /\ res = None

(***************************************************************************)
(* Euclidean division: Euclid and CheckedEuclid, forwarded to the          *)
(* primitive methods of the same name.                                     *)
(***************************************************************************)
EuclidKinds == IntKinds \cup {"i128", "u128"}

SomePair(x, y) == [tag |-> "SomePair", val |-> x, val2 |-> y]

\* the operators / and % panic on a zero divisor and on MIN / -1, in every build
DivOverflows(x, y, k) == IsSigned(k) /\ x = MinOf(k) /\ y = -1

\* <$t>::div_euclid(*self, *v):
\*   let q = self / rhs;
\*   if self % rhs < 0 { return if rhs > 0 { q - 1 } else { q + 1 } }
\*   q
DivEuclid(x, y, k) ==
    IF y = 0 \/ DivOverflows(x, y, k) THEN Panic
    ELSE LET q == TruncDiv(x, y)
         IN  IF TruncRem(x, y) < 0
             THEN (IF y > 0 THEN Value(q - 1) ELSE Value(q + 1))
             ELSE Value(q)

\* a mutant: the remainder of the truncating division, unadjusted
RemEuclid_Trunc(x, y, k) ==
    IF y = 0 \/ DivOverflows(x, y, k) THEN Panic ELSE Value(TruncRem(x, y))

\* <$t>::rem_euclid(*self, *v):
\*   let r = self % rhs;
\*   if r < 0 { r.wrapping_add(rhs.wrapping_abs()) } else { r }
RemEuclid(x, y, k) ==
    IF y = 0 \/ DivOverflows(x, y, k) THEN Panic
    ELSE LET r == TruncRem(x, y)
         IN  IF r < 0 THEN Value(AsCast(r + AsCast(Abs(y), k), k)) ELSE Value(r)

\* (self.div_euclid(v), self.rem_euclid(v))
DivRemEuclid(x, y, k) ==
    LET q == DivEuclid(x, y, k)
        r == RemEuclid(x, y, k)
    IN  IF q = Panic \/ r = Panic THEN Panic ELSE Pair(q.val, r.val)

\* <$t>::checked_div_euclid(*self, *v)
CheckedDivEuclid(x, y, k) ==
    IF y = 0 \/ DivOverflows(x, y, k) THEN None
    ELSE Some(DivEuclid(x, y, k).val)

\* a mutant: only the zero divisor is refused
CheckedRemEuclid_ZeroOnly(x, y, k) ==
    IF y = 0 THEN None
    ELSE IF DivOverflows(x, y, k) THEN Some(0)
    ELSE Some(RemEuclid(x, y, k).val)

\* <$t>::checked_rem_euclid(*self, *v)
CheckedRemEuclid(x, y, k) ==
    IF y = 0 \/ DivOverflows(x, y, k) THEN None
    ELSE Some(RemEuclid(x, y, k).val)

\* Some((self.checked_div_euclid(v)?, self.checked_rem_euclid(v)?))
CheckedDivRemEuclid(x, y, k) ==
    LET q == CheckedDivEuclid(x, y, k)
        r == CheckedRemEuclid(x, y, k)
    IN  IF q = None THEN None
        ELSE IF r = None THEN None
        ELSE SomePair(q.val, r.val)

DivEuclidCall ==
    /\ op = "none"
    /\ \E k \in EuclidKinds :
         \E x \in ValuesOf(k), y \in ValuesOf(k) :
           Call("div_euclid", k, k, x, y, DivEuclid(x, y, k))

RemEuclidCall ==
    /\ op = "none"
    /\ \E k \in EuclidKinds :
         \E x \in ValuesOf(k), y \in ValuesOf(k) :
           Call("rem_euclid", k, k, x, y, RemEuclid(x, y, k))

DivRemEuclidCall ==
    /\ op = "none"
    /\ \E k \in EuclidKinds :
         \E x \in ValuesOf(k), y \in ValuesOf(k) :
           Call("div_rem_euclid", k, k, x, y, DivRemEuclid(x, y, k))

CheckedDivEuclidCall ==
    /\ op = "none"
    /\ \E k \in EuclidKinds :
         \E x \in ValuesOf(k), y \in ValuesOf(k) :
           Call("checked_div_euclid", k, k, x, y, CheckedDivEuclid(x, y, k))

CheckedRemEuclidCall ==
    /\ op = "none"
    /\ \E k \in EuclidKinds :
         \E x \in ValuesOf(k), y \in ValuesOf(k) :
           Call("checked_rem_euclid", k, k, x, y, CheckedRemEuclid(x, y, k))

CheckedDivRemEuclidCall ==
    /\ op = "none"
    /\ \E k \in EuclidKinds :
         \E x \in ValuesOf(k), y \in ValuesOf(k) :
           Call("checked_div_rem_euclid", k, k, x, y, CheckedDivRemEuclid(x, y, k))

NextEuclid ==
    \/ DivEuclidCall
    \/ RemEuclidCall
    \/ DivRemEuclidCall
    \/ CheckedDivEuclidCall
    \/ CheckedRemEuclidCall
    \/ CheckedDivRemEuclidCall
    \/ Return

SpecEuclid == Init /\ [][NextEuclid]_vars

\* (q, r) is the Euclidean quotient and remainder of x by y # 0
IsEuclidPair(q, r, x, y) == x = q * y + r /\ 0 <= r /\ r < Abs(y)

\* the quotients a division of x of kind k can have
QuotientRange(x) == (-(Abs(x) + 1))..(Abs(x) + 1)

\* the result of the plain Euclidean call in the current state is the
\* Euclidean quotient, remainder or pair of a by b
EuclidResultExact ==
    /\ op = "div_euclid" =>
         /\ res.tag = "Value"
         /\ InRange(res.val, kT)
         /\ \E r \in 0..(Abs(b) - 1) : IsEuclidPair(res.val, r, a, b)
    /\ op = "rem_euclid" =>
         /\ res.tag = "Value"
         /\ InRange(res.val, kT)
         /\ \E q \in QuotientRange(a) : IsEuclidPair(q, res.val, a, b)
    /\ op = "div_rem_euclid" =>
         /\ res.tag = "Pair"
         /\ InRange(res.val, kT)
         /\ InRange(res.val2, kT)
         /\ IsEuclidPair(res.val, res.val2, a, b)
         /\ Value(res.val) = DivEuclid(a, b, kT)
         /\ Value(res.val2) = RemEuclid(a, b, kT)

\* C7 as stated: for every integer kind, every dividend a and every non-zero
\* divisor v, div_euclid and rem_euclid return q and r with a == q*v + r and
\* 0 <= r < |v|, and div_rem_euclid(a, v) returns exactly that pair.
C7_EuclidEveryNonZero ==
    (op \in {"div_euclid", "rem_euclid", "div_rem_euclid"} /\ b # 0)
        => EuclidResultExact

\* C7, amended: for every integer kind, every dividend a and every non-zero
\* divisor v other than the signed pair a == MIN, v == -1, div_euclid and
\* rem_euclid return q and r with a == q*v + r and 0 <= r < |v|, and
\* div_rem_euclid(a, v) returns exactly that pair; for signed a == MIN and
\* v == -1 the quotient is not a value of the kind and the three calls panic.
C7_EuclidInvariant ==
    /\ (op \in {"div_euclid", "rem_euclid", "div_rem_euclid"}
          /\ b # 0 /\ ~DivOverflows(a, b, kT))
        => EuclidResultExact
    /\ (op \in {"div_euclid", "rem_euclid", "div_rem_euclid"}
          /\ DivOverflows(a, b, kT))
        => res = Panic

\* a negative dividend by a negative divisor, the remainder adjusted upwards
C7_Witness ==
    /\ op = "div_rem_euclid"
    /\ a < 0
    /\ b < -1
    /\ res.tag = "Pair"
    /\ res.val2 > 0
    /\ res.val > 0

\* C8: checked_div_euclid(a, v) and checked_rem_euclid(a, v) return None
\* exactly when v == 0, or the kind is signed and a == MIN and v == -1; in
\* every other case they return Some of the value div_euclid / rem_euclid
\* returns, and checked_div_rem_euclid is Some((q, r)) exactly when both are Some.
C8_CheckedEuclid ==
    LET refused == b = 0 \/ (IsSigned(kT) /\ a = MinOf(kT) /\ b = -1)
    IN  /\ op = "checked_div_euclid" =>
             /\ (res = None) <=> refused
             /\ ~refused =>
                  /\ DivEuclid(a, b, kT).tag = "Value"
                  /\ res = Some(DivEuclid(a, b, kT).val)
                  /\ \E r \in 0..(Abs(b) - 1) : IsEuclidPair(res.val, r, a, b)
        /\ op = "checked_rem_euclid" =>
             /\ (res = None) <=> refused
             /\ ~refused =>
                  /\ RemEuclid(a, b, kT).tag = "Value"
                  /\ res = Some(RemEuclid(a, b, kT).val)
                  /\ \E q \in QuotientRange(a) : IsEuclidPair(q, res.val, a, b)
        /\ op = "checked_div_rem_euclid" =>
             /\ res.tag \in {"None", "SomePair"}
             /\ (res.tag = "SomePair") <=>
                  (/\ CheckedDivEuclid(a, b, kT).tag = "Some"
                   /\ CheckedRemEuclid(a, b, kT).tag = "Some")
             /\ res.tag = "SomePair" =>
                  /\ Some(res.val) = CheckedDivEuclid(a, b, kT)
                  /\ Some(res.val2) = CheckedRemEuclid(a, b, kT)
                  /\ IsEuclidPair(res.val, res.val2, a, b)
             /\ (res = None) <=> refused

\* the remainder of MIN by -1 is refused although it would be zero
C8_Witness ==
    /\ op = "checked_rem_euclid"
    /\ IsSigned(kT)
    /\ a = MinOf(kT)
    /\ b = -1
    /\ res = None

(***************************************************************************)
(* Checked shifts: CheckedShl<RHS> and CheckedShr<RHS> for every pair of   *)
(* a shifted kind and a shift-amount kind.                                 *)
(***************************************************************************)
ShiftKinds == IntKinds

\* *rhs as u32: the shift amount handed to the primitive method
ShiftAmount(rhs) == AsCast(rhs, "u32")

\* a mutant: a left shift that loses a significant bit is refused
CheckedShl_Lossless(x, rhs, k) ==
    LET s == ShiftAmount(rhs)
    IN  IF s < Bits(k) /\ InRange(x * Pow2(s), k) THEN Some(x * Pow2(s)) ELSE None

\* <$t>::checked_shl(*self, *rhs as u32): self << rhs unless rhs >= BITS;
\* the bits shifted out of the kind are dropped
CheckedShl(x, rhs, k) ==
    LET s == ShiftAmount(rhs)
    IN  IF s < Bits(k) THEN Some(AsCast(x * Pow2(s), k)) ELSE None

\* <$t>::checked_shr(*self, *rhs as u32): self >> rhs unless rhs >= BITS;
\* the shift of a signed kind is arithmetic
CheckedShr(x, rhs, k) ==
    LET s == ShiftAmount(rhs)
    IN  IF s < Bits(k) THEN Some(x \div Pow2(s)) ELSE None

CheckedShlCall ==
    /\ op = "none"
    /\ \E k \in ShiftKinds, r \in ShiftKinds :
         \E x \in ValuesOf(k), rhs \in ValuesOf(r) :
           Call("checked_shl", k, r, x, rhs, CheckedShl(x, rhs, k))

CheckedShrCall ==
    /\ op = "none"
    /\ \E k \in ShiftKinds, r \in ShiftKinds :
         \E x \in ValuesOf(k), rhs \in ValuesOf(r) :
           Call("checked_shr", k, r, x, rhs, CheckedShr(x, rhs, k))

NextShift == CheckedShlCall \/ CheckedShrCall \/ Return

SpecShift == Init /\ [][NextShift]_vars

\* C9: for every integer kind T and every shift-amount kind R, checked_shl(x, rhs)
\* and checked_shr(x, rhs) return None whenever rhs is negative or rhs >= the
\* bit width of T, and Some otherwise, including for shift amounts of 64-bit
\* kinds that do not fit in 32 bits.
C9_ShiftNoneIffOutOfRange ==
    op \in {"checked_shl", "checked_shr"} =>
        /\ (b < 0 \/ b >= Bits(kT)) => res = None
        /\ (0 <= b /\ b < Bits(kT)) => res.tag = "Some"

\* r is the integer x * 2^n, for a value r of kind k
IsShlExact(r, x, n, k) ==
    IF x = 0 THEN r = 0
    ELSE IF n >= 0 THEN n <= Bits(k) /\ r = x * Pow2(n)
    ELSE -n <= Bits(k) /\ r * Pow2(-n) = x

\* r is floor(x / 2^n), for x of kind k
IsShrFloor(r, x, n, k) ==
    IF n > Bits(k) THEN r = (IF x < 0 THEN -1 ELSE 0)
    ELSE IF n >= 0 THEN r * Pow2(n) <= x /\ x < (r + 1) * Pow2(n)
    ELSE IF x = 0 THEN r = 0
    ELSE -n <= Bits(k) /\ r = x * Pow2(-n)

\* x * 2^n, n >= 0, is not a value of kind k
ShlNotRepresentable(x, n, k) ==
    x # 0 /\ (n > Bits(k) \/ ~InRange(x * Pow2(n), k))

\* C10 as stated: whenever checked_shl(x, rhs) returns Some(r), r is the
\* mathematically correct value x * 2^rhs, and whenever checked_shr(x, rhs)
\* returns Some(r), r == floor(x / 2^rhs); a left shift whose exact result is
\* not representable is reported as None.
C10_ShiftExact ==
    /\ (op = "checked_shl" /\ res.tag = "Some") => IsShlExact(res.val, a, b, kT)
    /\ (op = "checked_shr" /\ res.tag = "Some") => IsShrFloor(res.val, a, b, kT)
    /\ (op = "checked_shl" /\ b >= 0 /\ ShlNotRepresentable(a, b, kT))
         => res = None

\* C10, amended: whenever checked_shl(x, rhs) returns Some(r), r is the value
\* of the kind congruent to x * 2^s modulo 2^BITS, where s < BITS is the shift
\* amount rhs as u32 (s == rhs for 0 <= rhs < BITS): bits shifted out of the
\* kind are dropped, so r == x * 2^s only when that product is representable;
\* whenever checked_shr(x, rhs) returns Some(r), r == floor(x / 2^s); a left
\* shift by 0 <= rhs < BITS is Some even when its exact result is not
\* representable.
C10_ShiftModular ==
    LET s == ShiftAmount(b)
    IN  /\ (op \in {"checked_shl", "checked_shr"} /\ 0 <= b /\ b < Bits(kT))
             => s = b
        /\ (op = "checked_shl" /\ res.tag = "Some") =>
             /\ s < Bits(kT)
             /\ InRange(res.val, kT)
             /\ (res.val - a * Pow2(s)) % Pow2(Bits(kT)) = 0
             /\ InRange(a * Pow2(s), kT) => res.val = a * Pow2(s)
        /\ (op = "checked_shr" /\ res.tag = "Some") =>
             /\ s < Bits(kT)
             /\ res.val * Pow2(s) <= a
             /\ a < (res.val + 1) * Pow2(s)
        /\ (op = "checked_shl" /\ 0 <= b /\ b < Bits(kT)) => res.tag = "Some"

\* u8::MAX << 1: the top bit is shifted out and the call still returns Some
C10_Witness ==
    /\ op = "checked_shl"
    /\ kT = "u8"
    /\ a = MaxOf("u8")
    /\ b = 1
    /\ res = Some(MaxOf("u8") - 1)

(***************************************************************************)
(* Conversions between integer kinds that cannot fail.                     *)
(***************************************************************************)
\* C11 as stated: converting any value of an unsigned kind T with to_U into a
\* signed kind U whose width is greater than or equal to T's width always
\* succeeds, as does converting between kinds of matching signedness when U
\* is at least as wide as T.
C11_AtLeastAsWideSucceeds ==
    (/\ op = "to"
     /\ Bits(kU) >= Bits(kT)
     /\ (IsSigned(kT) = IsSigned(kU) \/ (~IsSigned(kT) /\ IsSigned(kU))))
        => res.tag = "Some"

\* C11, amended: converting any value of an unsigned kind T with to_U into a
\* signed kind U strictly wider than T always succeeds, as does converting
\* between kinds of matching signedness when U is at least as wide as T; into
\* a signed U of the same width as the unsigned T it succeeds exactly for the
\* values up to U::MAX and returns None for the upper half of T.
C11_WideEnoughSucceeds ==
    /\ (/\ op = "to"
        /\ \/ (IsSigned(kT) = IsSigned(kU) /\ Bits(kU) >= Bits(kT))
           \/ (~IsSigned(kT) /\ IsSigned(kU) /\ Bits(kU) > Bits(kT)))
          => res = Some(a)
    /\ (op = "to" /\ ~IsSigned(kT) /\ IsSigned(kU) /\ Bits(kU) = Bits(kT))
          => res = (IF a <= MaxOf(kU) THEN Some(a) ELSE None)

\* the MAX of an unsigned kind goes into a strictly wider signed kind
C11_Witness ==
    /\ op = "to"
    /\ ~IsSigned(kT)
    /\ IsSigned(kU)
    /\ Bits(kU) > Bits(kT)
    /\ a = MaxOf(kT)
    /\ res = Some(MaxOf(kT))

(***************************************************************************)
(* Round trip: t.to_U() followed by T::from_U of the result.               *)
(***************************************************************************)
\* t.to_<U>().and_then(T::from_<U>): the intermediate value and the result
RoundTripCall ==
    /\ op = "none"
    /\ \E t \in IntKinds, u \in IntKinds :
         \E x \in ValuesOf(t) :
           LET mid == ToPrimitive(x, t, u)
           IN  IF mid.tag = "Some"
               THEN Call("round_trip", t, u, x, mid.val,
                         FromPrimitive(mid.val, u, t))
               ELSE Call("round_trip", t, u, x, 0, None)

NextRoundTrip == RoundTripCall \/ Return

SpecRoundTrip == Init /\ [][NextRoundTrip]_vars

\* kind u has every value of kind t
CanHold(t, u) == MinOf(u) <= MinOf(t) /\ MaxOf(t) <= MaxOf(u)

\* C12: for every pair of integer kinds (T, U) where U can hold all of T's
\* values, and every t of T, t.to_U() is Some(u) and T::from_U(u) == Some(t).
C12_RoundTrip ==
    (op = "round_trip" /\ CanHold(kT, kU)) =>
        /\ ToPrimitive(a, kT, kU) = Some(b)
        /\ b = a
        /\ res = Some(a)

\* the MAX of u8 through usize and back, from_usize going through u64
C12_Witness ==
    /\ op = "round_trip"
    /\ kT = "u8"
    /\ kU = "usize"
    /\ a = MaxOf("u8")
    /\ b = MaxOf("u8")
    /\ res = Some(MaxOf("u8"))

(***************************************************************************)
(* Floats.  A float is NaN, an infinity, or a finite value kept as its     *)
(* numerator over 2^FracBits; a finite value of kind f is m * 2^e with     *)
(* m < 2^MANTISSA_DIGITS and e in the exponent range of f.  The integer    *)
(* widths used beside floats are spaced like the real ones around the      *)
(* mantissas:  i8 < i16 < f32 mantissa < i32 - 1,  i32 < f64 mantissa      *)
(* < i64 - 1, and f32::MAX exceeds every integer kind.                     *)
(***************************************************************************)
FloatKinds == {"f32", "f64"}

\* k::BITS beside floats
SpacedBits(k) ==
    BaseBits + (CASE SizeOf(k) = 1 -> 0
                  [] SizeOf(k) = 2 -> 1
                  [] SizeOf(k) = 4 -> 4
                  [] SizeOf(k) = 8 -> 7
                  [] SizeOf(k) = 16 -> 8)

SpacedMin(k) == IF IsSigned(k) THEN -Pow2(SpacedBits(k) - 1) ELSE 0

SpacedMax(k) ==
    IF IsSigned(k) THEN Pow2(SpacedBits(k) - 1) - 1 ELSE Pow2(SpacedBits(k)) - 1

SpacedValues(k) == SpacedMin(k)..SpacedMax(k)

\* f::MANTISSA_DIGITS
MantBits(f) == IF f = "f32" THEN BaseBits + 2 ELSE BaseBits + 5

\* the exponents e of the finite values m * 2^e / 2^FracBits of kind f
ExpLo(f) == IF f = "f32" THEN 1 ELSE 0

ExpHi(f) == IF f = "f32" THEN FracBits + 6 ELSE FracBits + 8

\* the numerator of 1.0
Unit == Pow2(FracBits)

Fin(n) == [cls |-> "fin", num |-> n]

NaN == [cls |-> "nan", num |-> 0]

Infinity == [cls |-> "inf", num |-> 1]

NegInfinity == [cls |-> "inf", num |-> -1]

\* f::MAX
FloatMax(f) == Fin((Pow2(MantBits(f)) - 1) * Pow2(ExpHi(f)))

FiniteNums(f) ==
    { sg * m * Pow2(e) : sg \in {-1, 1},
                         m \in 0..(Pow2(MantBits(f)) - 1),
                         e \in ExpLo(f)..ExpHi(f) }

FloatsOf(f) == { Fin(n) : n \in FiniteNums(f) } \cup {NaN, Infinity, NegInfinity}

\* FloatCore::is_finite, is_nan
IsFinite(x) == x.cls = "fin"

IsNaN(x) == x.cls = "nan"

\* the order of the non-NaN floats; every comparison with NaN is false
FloatKey(x) ==
    IF x.cls = "inf" THEN x.num * Pow2(MantBits("f64") + ExpHi("f64") + 1)
    ELSE x.num

FLt(x, y) == ~IsNaN(x) /\ ~IsNaN(y) /\ FloatKey(x) < FloatKey(y)

FGt(x, y) == FLt(y, x)

FGe(x, y) == ~IsNaN(x) /\ ~IsNaN(y) /\ FloatKey(x) >= FloatKey(y)

\* the exponent of the binade of kind f that holds the magnitude mag
RECURSIVE BinadeExp(_, _, _)
BinadeExp(mag, p, e) ==
    IF mag < Pow2(p + e) THEN e ELSE BinadeExp(mag, p, e + 1)

\* the float of kind f nearest to the exact numerator n, ties to even,
\* infinite when the rounded magnitude exceeds f::MAX
RoundToFloat(n, f) ==
    LET p == MantBits(f)
        mag == Abs(n)
        sg == IF n < 0 THEN -1 ELSE 1
        e == BinadeExp(mag, p, ExpLo(f))
        q == mag \div Pow2(e)
        r == mag % Pow2(e)
        up == 2 * r > Pow2(e) \/ (2 * r = Pow2(e) /\ q % 2 = 1)
        m == IF up THEN q + 1 ELSE q
    IN  IF e > ExpHi(f) \/ (e = ExpHi(f) /\ m = Pow2(p))
        THEN [cls |-> "inf", num |-> sg]
        ELSE Fin(sg * m * Pow2(e))

\* n as f, for an integer n
IntAsFloat(n, f) == RoundToFloat(n * Unit, f)

\* x as g, for a float x
FloatAsFloat(x, g) == IF IsFinite(x) THEN RoundToFloat(x.num, g) ELSE x

\* x + y and x - y in kind f, for finite x and y
FloatAdd(x, y, f) == RoundToFloat(x.num + y.num, f)

FloatSub(x, y, f) == RoundToFloat(x.num - y.num, f)

\* 1.0
FOne == Fin(Unit)

\* x as i, for a float x: truncation toward zero, saturating, NaN to zero
FloatAsInt(x, i) ==
    CASE IsNaN(x) -> 0
      [] x.cls = "inf" -> (IF x.num > 0 THEN SpacedMax(i) ELSE SpacedMin(i))
      [] OTHER ->
           LET t == TruncDiv(x.num, Unit)
           IN  IF t < SpacedMin(i) THEN SpacedMin(i)
               ELSE IF t > SpacedMax(i) THEN SpacedMax(i)
               ELSE t

(***************************************************************************)
(* Float to integer: impl_to_primitive_float_to_signed_int! and            *)
(* impl_to_primitive_float_to_unsigned_int!.                               *)
(***************************************************************************)
\* a mutant: the narrow-mantissa boundaries taken inclusively on both sides
ToFloatToSignedInt_MaxInclusive(x, f, i) ==
    LET MIN == IntAsFloat(SpacedMin(i), f)
        MAX == IntAsFloat(SpacedMax(i), f)
    IN  IF FGe(x, MIN) /\ FGe(MAX, x) THEN Some(FloatAsInt(x, i)) ELSE None

\* x.to_<i>() for a float x of kind f and a signed kind i
ToFloatToSignedInt(x, f, i) ==
    IF SizeOf(f) > SizeOf(i)
    THEN LET MIN_M1 == FloatSub(IntAsFloat(SpacedMin(i), f), FOne, f)
             MAX_P1 == FloatAdd(IntAsFloat(SpacedMax(i), f), FOne, f)
         IN  IF FGt(x, MIN_M1) /\ FLt(x, MAX_P1)
             THEN Some(FloatAsInt(x, i))
             ELSE None
    ELSE LET MIN == IntAsFloat(SpacedMin(i), f)
             MAX_P1 == IntAsFloat(SpacedMax(i), f)
         IN  IF FGe(x, MIN) /\ FLt(x, MAX_P1)
             THEN Some(FloatAsInt(x, i))
             ELSE None

\* x.to_<u>() for a float x of kind f and an unsigned kind u
ToFloatToUnsignedInt(x, f, u) ==
    IF SizeOf(f) > SizeOf(u)
    THEN LET MAX_P1 == FloatAdd(IntAsFloat(SpacedMax(u), f), FOne, f)
         IN  IF FGt(x, Fin(-Unit)) /\ FLt(x, MAX_P1)
             THEN Some(FloatAsInt(x, u))
             ELSE None
    ELSE LET MAX_P1 == IntAsFloat(SpacedMax(u), f)
         IN  IF FGt(x, Fin(-Unit)) /\ FLt(x, MAX_P1)
             THEN Some(FloatAsInt(x, u))
             ELSE None

\* impl_to_primitive_float!: the integer destinations
ToFloatToInt(x, f, i) ==
    IF IsSigned(i) THEN ToFloatToSignedInt(x, f, i)
    ELSE ToFloatToUnsignedInt(x, f, i)

FloatToIntCall ==
    /\ op = "none"
    /\ \E f \in FloatKinds, i \in IntKinds :
         \E x \in FloatsOf(f) :
           Call("float_to_int", f, i, x, 0, ToFloatToInt(x, f, i))

NextFloatToInt == FloatToIntCall \/ Return

SpecFloatToInt == Init /\ [][NextFloatToInt]_vars

\* t is the numerator n / 2^FracBits truncated toward zero
IsTrunc(t, n) ==
    /\ Abs(t) * Unit <= Abs(n)
    /\ Abs(n) < (Abs(t) + 1) * Unit
    /\ (t = 0 \/ (t < 0) = (n < 0))

\* the exact numerator n is a finite value of kind f
IsFloatOf(n, f) == RoundToFloat(n, f) = Fin(n)

\* the numerator of the least finite value of kind f that is >= n / 2^FracBits
FloatCeil(n, f) ==
    LET e == BinadeExp(Abs(n), MantBits(f), ExpLo(f))
    IN  IF n > 0 THEN ((n + Pow2(e) - 1) \div Pow2(e)) * Pow2(e)
        ELSE -(((-n) \div Pow2(e)) * Pow2(e))

\* x is the float of kind f next below the numerator c
IsFloatBelow(x, c, f) ==
    /\ IsFinite(x)
    /\ x.num < c
    /\ FloatCeil(x.num + 1, f) >= c

\* C13: for every float kind F and integer kind I, x.to_I() returns
\* Some(trunc(x)) exactly when the truncated value lies in [I::MIN, I::MAX],
\* and None otherwise, including for NaN and the infinities; I::MIN as F and
\* the largest F value below I::MAX + 1 succeed, while the next F value
\* outside the range (I::MIN - 1 when exactly representable, otherwise the
\* value just below I::MIN as F; and I::MAX + 1) fails.
C13_FloatToIntTrunc ==
    op = "float_to_int" =>
        /\ ~IsFinite(a) => res = None
        /\ IsFinite(a) =>
             \E t \in {a.num \div Unit, (a.num \div Unit) + 1} :
                /\ IsTrunc(t, a.num)
                /\ res = (IF SpacedMin(kU) <= t /\ t <= SpacedMax(kU)
                          THEN Some(t) ELSE None)
        /\ a = Fin(SpacedMin(kU) * Unit) => res = Some(SpacedMin(kU))
        /\ IsFloatBelow(a, (SpacedMax(kU) + 1) * Unit, kT) => res.tag = "Some"
        /\ a = Fin((SpacedMax(kU) + 1) * Unit) => res = None
        /\ (IF IsFloatOf((SpacedMin(kU) - 1) * Unit, kT)
            THEN a = Fin((SpacedMin(kU) - 1) * Unit)
            ELSE IsFloatBelow(a, SpacedMin(kU) * Unit, kT))
             => res = None

\* the largest f32 below i32::MAX + 1, where i32::MAX itself is not an f32
C13_Witness ==
    /\ op = "float_to_int"
    /\ kT = "f32"
    /\ kU = "i32"
    /\ IsFloatBelow(a, (SpacedMax("i32") + 1) * Unit, "f32")
    /\ a.num < SpacedMax("i32") * Unit
    /\ res = Some(a.num \div Unit)

(***************************************************************************)
(* Float to float: impl_to_primitive_float_to_float!.                      *)
(***************************************************************************)
\* f::MIN, the most negative finite value
FloatMin(f) == Fin(-FloatMax(f).num)

\* a mutant: the cast made without the range test
ToFloatToFloat_Unchecked(x, src, dst) == Some(FloatAsFloat(x, dst))

\* x.to_<dst>() for a float x of kind src and a float kind dst
ToFloatToFloat(x, src, dst) ==
    IF SizeOf(src) > SizeOf(dst) /\ IsFinite(x)
    THEN LET n == FloatAsFloat(x, "f64")
         IN  IF \/ FLt(n, FloatAsFloat(FloatMin(dst), "f64"))
                \/ FGt(n, FloatAsFloat(FloatMax(dst), "f64"))
             THEN None
             ELSE Some(FloatAsFloat(x, dst))
    ELSE Some(FloatAsFloat(x, dst))

FloatToFloatCall ==
    /\ op = "none"
    /\ \E f \in FloatKinds, g \in FloatKinds :
         \E x \in FloatsOf(f) :
           Call("float_to_float", f, g, x, 0, ToFloatToFloat(x, f, g))

NextFloatToFloat == FloatToFloatCall \/ Return

SpecFloatToFloat == Init /\ [][NextFloatToFloat]_vars

\* C14: f64.to_f32() returns None exactly when the value is finite and lies
\* outside [-f32::MAX, f32::MAX]; f32::MAX and -f32::MAX as f64 convert to
\* Some of themselves; NaN and the infinities always convert to Some of
\* NaN and the same infinity; widening f32.to_f64() and same-kind conversion
\* never return None.
C14_FloatToFloat ==
    op = "float_to_float" =>
        /\ (kT = "f64" /\ kU = "f32") =>
             /\ (res = None) <=>
                  (/\ IsFinite(a)
                   /\ (a.num < -FloatMax("f32").num \/ a.num > FloatMax("f32").num))
             /\ a = FloatMax("f32") => res = Some(FloatMax("f32"))
             /\ a = FloatMin("f32") => res = Some(FloatMin("f32"))
        /\ ~IsFinite(a) => res = Some(a)
        /\ SizeOf(kU) >= SizeOf(kT) => res = Some(a)
        /\ res.tag \in {"None", "Some"}

\* an f64 just above f32::MAX, which the cast alone would round to f32::MAX
C14_Witness ==
    /\ op = "float_to_float"
    /\ kT = "f64"
    /\ kU = "f32"
    /\ IsFinite(a)
    /\ a.num > FloatMax("f32").num
    /\ RoundToFloat(a.num, "f32") = FloatMax("f32")
    /\ res = None

(***************************************************************************)
(* Integer to float: to_f32 / to_f64 of impl_to_primitive_int! and         *)
(* impl_to_primitive_uint!, and the fallible conversions together.         *)
(***************************************************************************)
\* a mutant: an integer that is not a value of the float kind is refused
ToIntToFloat_Exact(n, i, f) ==
    IF IsFloatOf(n * Unit, f) THEN Some(Fin(n * Unit)) ELSE None

\* n.to_<f>() for an integer n of kind i: Some(*self as f)
ToIntToFloat(n, i, f) == Some(IntAsFloat(n, f))

IntToFloatCall ==
    /\ op = "none"
    /\ \E i \in IntKinds, f \in FloatKinds :
         \E n \in SpacedValues(i) :
           Call("int_to_float", i, f, n, 0, ToIntToFloat(n, i, f))

NextFallible ==
    \/ ToPrimitiveCall
    \/ FromPrimitiveCall
    \/ CastCall
    \/ IntToFloatCall
    \/ FloatToIntCall
    \/ FloatToFloatCall
    \/ Return

SpecFallible == Init /\ [][NextFallible]_vars

\* the finite float x of kind f is one of the two values of f nearest to the
\* numerator n, and none is nearer
IsNearestFloat(x, n, f) ==
    /\ IsFinite(x)
    /\ IsFloatOf(x.num, f)
    /\ x.num \in {FloatCeil(n, f), -FloatCeil(-n, f)}
    /\ Abs(x.num - n) <= Abs(FloatCeil(n, f) - n)
    /\ Abs(x.num - n) <= Abs(-FloatCeil(-n, f) - n)

\* C15 as stated: a fallible conversion returns Some(u) only when the source
\* value is exactly representable in the destination kind, u being
\* numerically equal to the source, and None otherwise; integer-to-float and
\* float-to-integer conversions included.
C15_SomeOnlyIfExact ==
    /\ op \in {"to", "from", "cast"} =>
         res = (IF InRange(a, kU) THEN Some(a) ELSE None)
    /\ op = "int_to_float" =>
         res = (IF IsFloatOf(a * Unit, kU) THEN Some(Fin(a * Unit)) ELSE None)
    /\ op = "float_to_int" =>
         /\ res.tag = "Some" => a = Fin(res.val * Unit)
         /\ res = None =>
              ~(/\ IsFinite(a)
                /\ a.num % Unit = 0
                /\ SpacedMin(kU) * Unit <= a.num
                /\ a.num <= SpacedMax(kU) * Unit)
    /\ op = "float_to_float" =>
         /\ res.tag = "Some" => res.val = a
         /\ res = None => (IsFinite(a) /\ ~IsFloatOf(a.num, kU))

\* C15, amended: between integer kinds a fallible conversion returns Some(u)
\* exactly when the source is a value of the destination kind, with u equal
\* to it, and None otherwise.  An integer-to-float conversion (to_f32 /
\* to_f64) never returns None: it returns Some of the float nearest to the
\* integer, equal to it only when the integer is a value of the float kind.
\* A float-to-integer conversion returns Some of the source truncated toward
\* zero when that lies in the destination's range, equal to the source only
\* when the source is integral.  A float-to-float conversion returns Some of
\* the source rounded to the destination kind, or None for a finite source
\* beyond the destination's finite range.
C15_ExactOrRounded ==
    /\ op \in {"to", "from", "cast"} =>
         res = (IF InRange(a, kU) THEN Some(a) ELSE None)
    /\ op = "int_to_float" =>
         /\ res.tag = "Some"
         /\ IsNearestFloat(res.val, a * Unit, kU)
         /\ (res.val = Fin(a * Unit)) <=> IsFloatOf(a * Unit, kU)
    /\ op = "float_to_int" =>
         /\ res.tag \in {"Some", "None"}
         /\ res.tag = "Some" =>
              /\ IsFinite(a)
              /\ IsTrunc(res.val, a.num)
              /\ SpacedMin(kU) <= res.val /\ res.val <= SpacedMax(kU)
              /\ (a = Fin(res.val * Unit)) <=> (a.num % Unit = 0)
         /\ res = None =>
              \/ ~IsFinite(a)
              \/ a.num <= (SpacedMin(kU) - 1) * Unit
              \/ a.num >= (SpacedMax(kU) + 1) * Unit
    /\ op = "float_to_float" =>
         /\ res.tag \in {"Some", "None"}
         /\ (res.tag = "Some" /\ IsFinite(a)) =>
              /\ IsNearestFloat(res.val, a.num, kU)
              /\ (res.val = a) <=> IsFloatOf(a.num, kU)
         /\ (res.tag = "Some" /\ ~IsFinite(a)) => res.val = a
         /\ res = None =>
              (IsFinite(a) /\ Abs(a.num) > FloatMax(kU).num)

\* i32::MAX.to_f32(): i32::MAX is not an f32 and the call is Some(MAX + 1)
C15_Witness ==
    /\ op = "int_to_float"
    /\ kT = "i32"
    /\ kU = "f32"
    /\ a = SpacedMax("i32")
    /\ res = Some(Fin((SpacedMax("i32") + 1) * Unit))

(***************************************************************************)
(* The reinterpreting cast: AsPrimitive, impl_as_primitive!.               *)
(***************************************************************************)
\* the two's-complement bit pattern of x in kind k, as a natural number
BitPattern(x, k) == IF x < 0 THEN x + Pow2(Bits(k)) ELSE x

\* the value of kind k with the bit pattern pat
FromBitPattern(pat, k) ==
    IF IsSigned(k) /\ pat >= Pow2(Bits(k) - 1) THEN pat - Pow2(Bits(k)) ELSE pat

\* a mutant: a widening cast that never extends the sign
AsPrimitive_ZeroExtend(x, src, dst) ==
    Value(FromBitPattern(BitPattern(x, src) % Pow2(Bits(dst)), dst))

\* self as $U between integer kinds: the pattern is truncated when narrowing
\* and extended by the source's sign when widening
AsPrimitive(x, src, dst) ==
    LET pat == BitPattern(x, src)
        ext == IF Bits(dst) > Bits(src) /\ x < 0
               THEN pat + (Pow2(Bits(dst)) - Pow2(Bits(src)))
               ELSE pat % Pow2(Bits(dst))
    IN  Value(FromBitPattern(ext, dst))

AsPrimitiveCall ==
    /\ op = "none"
    /\ \E src \in IntKinds, dst \in IntKinds :
         \E x \in ValuesOf(src) :
           Call("as", src, dst, x, 0, AsPrimitive(x, src, dst))

NextAs == AsPrimitiveCall \/ Return

SpecAs == Init /\ [][NextAs]_vars

\* C16: as_ never fails, and between integer kinds it returns the unique
\* value of the destination kind congruent to the source modulo
\* 2^(destination bit width); as_(x) is numerically equal to x exactly in the
\* cases where the fallible to_U(x) returns Some, and then both return the
\* same value.
C16_AsIsCongruent ==
    op = "as" =>
        /\ res.tag = "Value"
        /\ InRange(res.val, kU)
        /\ (res.val - a) % Pow2(Bits(kU)) = 0
        /\ (res.val = a) <=> (ToPrimitive(a, kT, kU).tag = "Some")
        /\ ToPrimitive(a, kT, kU).tag = "Some"
             => ToPrimitive(a, kT, kU) = Some(res.val)

\* a non-zero i16 whose low byte is zero becomes 0u8, as 768i16 does
C16_Witness ==
    /\ op = "as"
    /\ kT = "i16"
    /\ kU = "u8"
    /\ a # 0
    /\ a % Pow2(Bits("u8")) = 0
    /\ res = Value(0)

(***************************************************************************)
(* Safe casts: GrowFrom and TrimFrom, as the macros instantiate them under *)
(* the target pointer width of the build.                                  *)
(***************************************************************************)
NumKinds == IntKinds \cup {"i128", "u128"}

SafeKinds == NumKinds \cup FloatKinds

\* the values of a kind, integer or float
KindValues(k) == IF k \in FloatKinds THEN FloatsOf(k) ELSE ValuesOf(k)

\* value as $into, between two integer kinds or two float kinds
AsKind(value, from, into) ==
    IF from \in FloatKinds THEN Value(FloatAsFloat(value, into))
    ELSE AsPrimitive(value, from, into)

\* grow_impl! { $from: $into, ... }: the pairs <<from, into>>
GrowImpls64 == {<<"u64", "usize">>, <<"i64", "isize">>}

GrowImpls32 == {<<"usize", "u32">>, <<"isize", "i32">>}

GrowImplsAny ==
    {<<"usize", "u128">>, <<"usize", "u64">>,
     <<"isize", "i128">>, <<"isize", "i64">>,
     <<"u64", "u128">>,
     <<"i64", "i128">>,
     <<"u32", "usize">>, <<"u32", "u128">>, <<"u32", "u64">>,
     <<"i32", "isize">>, <<"i32", "i128">>, <<"i32", "i64">>,
     <<"u16", "usize">>, <<"u16", "u128">>, <<"u16", "u64">>, <<"u16", "u32">>,
     <<"i16", "isize">>, <<"i16", "i128">>, <<"i16", "i64">>, <<"i16", "i32">>,
     <<"u8", "usize">>, <<"u8", "u128">>, <<"u8", "u64">>, <<"u8", "u32">>,
     <<"u8", "u16">>,
     <<"i8", "isize">>, <<"i8", "i128">>, <<"i8", "i64">>, <<"i8", "i32">>,
     <<"i8", "i16">>,
     <<"f32", "f64">>}

\* impl<T> GrowFrom<T> for T, impl<T> TrimFrom<T> for T
ReflexiveImpls == { <<k, k>> : k \in SafeKinds }

\* the GrowFrom impls of the build: <<from, into>> is GrowFrom<from> for into
GrowImpls ==
    (IF tpw = 8 THEN GrowImpls64 ELSE {})
        \cup (IF tpw = 4 THEN GrowImpls32 ELSE {})
        \cup GrowImplsAny

\* trim_impl! { $from: $into, ... }: the pairs <<from, into>>
TrimImpls64 == {<<"usize", "u64">>, <<"isize", "i64">>}

TrimImpls32 == {<<"u32", "usize">>, <<"i32", "isize">>}

TrimImplsAny ==
    {<<"usize", "u32">>, <<"usize", "u16">>, <<"usize", "u8">>,
     <<"isize", "i32">>, <<"isize", "i16">>, <<"isize", "i8">>,
     <<"u128", "usize">>, <<"u128", "u64">>, <<"u128", "u32">>,
     <<"u128", "u16">>, <<"u128", "u8">>,
     <<"i128", "isize">>, <<"i128", "i64">>, <<"i128", "i32">>,
     <<"i128", "i16">>, <<"i128", "i8">>,
     <<"u64", "usize">>, <<"u64", "u32">>, <<"u64", "u16">>, <<"u64", "u8">>,
     <<"i64", "isize">>, <<"i64", "i32">>, <<"i64", "i16">>, <<"i64", "i8">>,
     <<"u32", "u16">>, <<"u32", "u8">>,
     <<"i32", "i16">>, <<"i32", "i8">>,
     <<"u16", "u8">>,
     <<"i16", "i8">>,
     <<"f64", "f32">>}

\* the TrimFrom impls of the build: <<from, into>> is TrimFrom<from> for into
TrimImpls ==
    (IF tpw = 8 THEN TrimImpls64 ELSE {})
        \cup (IF tpw = 4 THEN TrimImpls32 ELSE {})
        \cup TrimImplsAny

\* <$into as GrowFrom<$from>>::grow(value)
Grow(value, from, into) ==
    IF from = into THEN Value(value) ELSE AsKind(value, from, into)

\* <$into as TrimFrom<$from>>::trim(value)
Trim(value, from, into) ==
    IF from = into THEN Value(value) ELSE AsKind(value, from, into)

GrowCall ==
    /\ op = "none"
    /\ \E p \in GrowImpls \cup ReflexiveImpls :
         \E x \in KindValues(p[1]) :
           Call("grow", p[1], p[2], x, 0, Grow(x, p[1], p[2]))

TrimCall ==
    /\ op = "none"
    /\ \E p \in TrimImpls \cup ReflexiveImpls :
         \E x \in KindValues(p[1]) :
           Call("trim", p[1], p[2], x, 0, Trim(x, p[1], p[2]))

\* T::trim(U::grow(x)) for GrowFrom<T> for U and TrimFrom<U> for T
GrowTrimCall ==
    /\ op = "none"
    /\ \E p \in GrowImpls :
         /\ p[1] \in NumKinds
         /\ <<p[2], p[1]>> \in TrimImpls
         /\ \E x \in KindValues(p[1]) :
              LET mid == Grow(x, p[1], p[2]).val
              IN  Call("grow_trim", p[1], p[2], x, mid, Trim(mid, p[2], p[1]))

NextSafe == GrowCall \/ TrimCall \/ GrowTrimCall \/ Return

SpecSafe == Init /\ [][NextSafe]_vars

SameSignedness(t, u) ==
    (t \in FloatKinds /\ u \in FloatKinds)
        \/ (t \in NumKinds /\ u \in NumKinds /\ IsSigned(t) = IsSigned(u))

\* C17: every GrowFrom impl the source generates, under each target pointer
\* width, goes from a kind to a kind of the same signedness with at least as
\* many bits, so grow(x) is numerically equal to x for every x, never
\* decreases the size and never fails.
C17_GrowKeepsValue ==
    op = "grow" =>
        /\ SameSignedness(kT, kU)
        /\ SizeOf(kU) >= SizeOf(kT)
        /\ res = Value(a)

\* C18: every TrimFrom impl the source generates, under each target pointer
\* width, goes from a kind to a kind of the same signedness with at most as
\* many bits, and for integers trim(x) is the destination value congruent to
\* x modulo 2^(destination bit width); it never fails.
C18_TrimTruncates ==
    op = "trim" =>
        /\ SameSignedness(kT, kU)
        /\ SizeOf(kU) <= SizeOf(kT)
        /\ res.tag = "Value"
        /\ kT \in NumKinds =>
              /\ InRange(res.val, kU)
              /\ (res.val - a) % Pow2(Bits(kU)) = 0

\* C19: for every ordered pair of integer kinds (T, U) for which GrowFrom<T>
\* for U is implemented, TrimFrom<U> for T is implemented too, and
\* trim(grow(x)) == x for every value x of T.
C19_GrowTrimInverse ==
    /\ \A p \in GrowImpls : p[1] \in NumKinds => <<p[2], p[1]>> \in TrimImpls
    /\ op = "grow_trim" => res = Value(a)

(***************************************************************************)
(* SignCast: sign_impl! { $usig : $sign }.                                 *)
(***************************************************************************)
\* the pairs <<$usig, $sign>> the macro is instantiated with
SignImpls ==
    {<<"u128", "i128">>, <<"usize", "isize">>, <<"u64", "i64">>,
     <<"u32", "i32">>, <<"u16", "i16">>, <<"u8", "i8">>}

\* <k as SignCast>::Unsigned and <k as SignCast>::Signed
UnsignedOf(k) == (CHOOSE p \in SignImpls : k = p[1] \/ k = p[2])[1]

SignedOf(k) == (CHOOSE p \in SignImpls : k = p[1] \/ k = p[2])[2]

\* fn unsigned(self): self for $usig, self as $usig for $sign
SignCastUnsigned(x, k) ==
    IF k = UnsignedOf(k) THEN Value(x) ELSE AsPrimitive(x, k, UnsignedOf(k))

\* a mutant: a value above $sign::MAX is clamped to it
SignCastSigned_Saturating(x, k) ==
    IF x > MaxOf(SignedOf(k)) THEN Value(MaxOf(SignedOf(k))) ELSE Value(x)

\* fn signed(self): self as $sign for $usig, self for $sign
SignCastSigned(x, k) ==
    IF k = SignedOf(k) THEN Value(x) ELSE AsPrimitive(x, k, SignedOf(k))

UnsignedCall ==
    /\ op = "none"
    /\ \E k \in NumKinds :
         \E x \in ValuesOf(k) :
           Call("unsigned", k, UnsignedOf(k), x, 0, SignCastUnsigned(x, k))

SignedCall ==
    /\ op = "none"
    /\ \E k \in NumKinds :
         \E x \in ValuesOf(k) :
           Call("signed", k, SignedOf(k), x, 0, SignCastSigned(x, k))

\* x.unsigned().signed()
UnsignedSignedCall ==
    /\ op = "none"
    /\ \E k \in NumKinds :
         \E x \in ValuesOf(k) :
           LET mid == SignCastUnsigned(x, k).val
           IN  Call("unsigned_signed", k, SignedOf(k), x, mid,
                    SignCastSigned(mid, UnsignedOf(k)))

\* x.signed().unsigned()
SignedUnsignedCall ==
    /\ op = "none"
    /\ \E k \in NumKinds :
         \E x \in ValuesOf(k) :
           LET mid == SignCastSigned(x, k).val
           IN  Call("signed_unsigned", k, UnsignedOf(k), x, mid,
                    SignCastUnsigned(mid, SignedOf(k)))

NextSign ==
    UnsignedCall \/ SignedCall \/ UnsignedSignedCall \/ SignedUnsignedCall \/ Return

SpecSign == Init /\ [][NextSign]_vars

\* C20: SignCast keeps the width and reinterprets the two's-complement bit
\* pattern: x.unsigned() is the value in [0, 2^W) congruent to x mod 2^W and
\* x.signed() is the value in [-2^(W-1), 2^(W-1)) congruent to x mod 2^W;
\* x.unsigned().signed() == x for every signed x, x.signed().unsigned() == x
\* for every unsigned x, and unsigned() on an unsigned value and signed() on
\* a signed value are the identity.
C20_SignCastReinterprets ==
    LET W == Bits(kT)
    IN  /\ op \in {"unsigned", "signed"} =>
             /\ res.tag = "Value"
             /\ Bits(kU) = W
             /\ SizeOf(kU) = SizeOf(kT)
             /\ (res.val - a) % Pow2(W) = 0
        /\ op = "unsigned" =>
             /\ ~IsSigned(kU)
             /\ 0 <= res.val /\ res.val < Pow2(W)
             /\ ~IsSigned(kT) => res = Value(a)
        /\ op = "signed" =>
             /\ IsSigned(kU)
             /\ -Pow2(W - 1) <= res.val /\ res.val < Pow2(W - 1)
             /\ IsSigned(kT) => res = Value(a)
        /\ (op = "unsigned_signed" /\ IsSigned(kT)) => res = Value(a)
        /\ (op = "signed_unsigned" /\ ~IsSigned(kT)) => res = Value(a)

\* isize::MIN.unsigned() is 2^(W-1), as isize::min_value() as usize
C20_Witness ==
    /\ op = "unsigned"
    /\ kT = "isize"
    /\ a = MinOf("isize")
    /\ res = Value(Pow2(Bits("isize") - 1))

(***************************************************************************)
(* The exponent zero.                                                      *)
(***************************************************************************)
\* C21: an exponent of zero yields the multiplicative identity whatever the
\* base, base zero included: pow(b, 0) is 1 and checked_pow(b, 0) is Some(1)
\* for every b, and nothing is multiplied on the way: no base, however
\* large, makes the call overflow, in either build.
C21_ZeroExponentIsOne ==
    /\ (op \in {"pow", "pow_wrapping"} /\ b = 0) => res = Value(1)
    /\ (op = "checked_pow" /\ b = 0) => res = Some(1)

\* checked_pow(0, 0) returned Some(1)
C21_Witness ==
    /\ op = "checked_pow"
    /\ a = 0
    /\ b = 0
    /\ res = Some(1)

(***************************************************************************)
(* The total family: the operations whose signature has no way to report   *)
(* a failure.                                                              *)
(***************************************************************************)
NextTotal ==
    \/ AsPrimitiveCall
    \/ GrowCall
    \/ TrimCall
    \/ UnsignedCall
    \/ SignedCall
    \/ PowCall
    \/ WideningMulCall
    \/ WideningMulU128Call
    \/ DivEuclidCall
    \/ RemEuclidCall
    \/ Return

SpecTotal == Init /\ [][NextTotal]_vars

\* the calls of the total family; Euclidean division counts with a non-zero
\* divisor only
IsTotalCall ==
    \/ op \in {"as", "grow", "trim", "unsigned", "signed", "pow",
               "widening_mul", "widening_mul_u128"}
    \/ op \in {"div_euclid", "rem_euclid"} /\ b # 0

\* C22: as_, grow, trim, signed()/unsigned(), plain pow, widening_mul and
\* div_euclid / rem_euclid with a non-zero divisor return a value for every
\* input and never fail (no panic, no absent result), for every integer kind
\* and every operand value.
C22_TotalNeverFails ==
    IsTotalCall => res.tag \in {"Value", "Pair"}

\* C22 as the code has it: a call of the total family returns a value or
\* panics, and it panics exactly where a primitive operator overflows: a
\* product in pow under overflow checks, MIN / -1 in the Euclidean division
\* in every build, and the shift by the full width in the usize widening_mul
\* of a 16-bit target under overflow checks.
C22_TotalFailsOnlyOnOverflow ==
    IsTotalCall =>
        /\ res.tag \in {"Value", "Pair", "Panic"}
        /\ res = Panic <=>
             \/ op = "pow" /\ ovf = "panic" /\ ~Representable(a, b, kT)
             \/ op \in {"div_euclid", "rem_euclid"} /\ DivOverflows(a, b, kT)
             \/ op = "widening_mul" /\ kT = "usize" /\ tpw = 2
                  /\ ovf = "panic"

\* plain pow panicked on a power that its kind cannot hold
C22_Witness ==
    /\ op = "pow"
    /\ ovf = "panic"
    /\ b >= 3
    /\ ~Representable(a, b, kT)
    /\ res = Panic

(***************************************************************************)
(* Checked folds over an iterator: checked_sum and checked_product.        *)
(* In this family the operand a is the sequence of the iterator's items.   *)
(***************************************************************************)
\* longest iterator handed to checked_sum and checked_product
MaxLen == 3

\* the kinds the folds are run at: the impls are generic in T, one signed
\* and one unsigned kind take every path through them
IterKinds == {"i8", "u8"}

\* the iterators of at most MaxLen items of kind k
ItersOf(k) == UNION {[1..n -> ValuesOf(k)] : n \in 0..MaxLen}

\* T::zero()
Zero == 0

\* iter.try_fold(init, |acc, x| acc.checked_add(&x)): the fold stops at the
\* first None
RECURSIVE TryFoldAdd(_, _, _)
TryFoldAdd(acc, iter, k) ==
    IF iter = <<>> THEN Some(acc)
    ELSE LET r == CheckedAdd(acc, Head(iter), k)
         IN  IF r.tag = "None" THEN None
             ELSE TryFoldAdd(r.val, Tail(iter), k)

\* iter.try_fold(init, |acc, x| acc.checked_mul(&x))
RECURSIVE TryFoldMul(_, _, _)
TryFoldMul(acc, iter, k) ==
    IF iter = <<>> THEN Some(acc)
    ELSE LET r == CheckedMul(acc, Head(iter), k)
         IN  IF r.tag = "None" THEN None
             ELSE TryFoldMul(r.val, Tail(iter), k)

\* the exact sum and product of the items
RECURSIVE SumOf(_)
SumOf(iter) == IF iter = <<>> THEN 0 ELSE Head(iter) + SumOf(Tail(iter))

RECURSIVE ProductOf(_)
ProductOf(iter) ==
    IF iter = <<>> THEN 1 ELSE Head(iter) * ProductOf(Tail(iter))

\* a mutant: the items are added up exactly and only the total is checked
CheckedSum_TotalOnly(iter, k) ==
    IF InRange(SumOf(iter), k) THEN Some(SumOf(iter)) ELSE None

\* impl<T> CheckedSum<T> for T: the items by value
CheckedSum(iter, k) == TryFoldAdd(Zero, iter, k)

\* impl<'a, T> CheckedSum<T> for &'a T: the items by reference
CheckedSumRef(iter, k) == TryFoldAdd(Zero, iter, k)

\* a mutant: the items are multiplied exactly and only the total is checked
CheckedProduct_TotalOnly(iter, k) ==
    IF InRange(ProductOf(iter), k) THEN Some(ProductOf(iter)) ELSE None

\* impl<T> CheckedProduct<T> for T: the items by value
CheckedProduct(iter, k) == TryFoldMul(One, iter, k)

\* impl<'a, T> CheckedProduct<T> for &'a T: the items by reference
CheckedProductRef(iter, k) == TryFoldMul(One, iter, k)

CheckedSumCall ==
    /\ op = "none"
    /\ \E k \in IterKinds :
         \E iter \in ItersOf(k) :
           Call("checked_sum", k, k, iter, 0, CheckedSum(iter, k))

CheckedSumRefCall ==
    /\ op = "none"
    /\ \E k \in IterKinds :
         \E iter \in ItersOf(k) :
           Call("checked_sum_ref", k, k, iter, 0, CheckedSumRef(iter, k))

CheckedProductCall ==
    /\ op = "none"
    /\ \E k \in IterKinds :
         \E iter \in ItersOf(k) :
           Call("checked_product", k, k, iter, 0, CheckedProduct(iter, k))

CheckedProductRefCall ==
    /\ op = "none"
    /\ \E k \in IterKinds :
         \E iter \in ItersOf(k) :
           Call("checked_product_ref", k, k, iter, 0,
                CheckedProductRef(iter, k))

NextIter ==
    \/ CheckedSumCall
    \/ CheckedSumRefCall
    \/ CheckedProductCall
    \/ CheckedProductRefCall
    \/ Return

SpecIter == Init /\ [][NextIter]_vars

\* the first n items of an iterator
Prefix(iter, n) == SubSeq(iter, 1, n)

\* every partial sum (product), taken left to right, is a value of kind k
PartialSumsFit(iter, k) ==
    \A n \in 1..Len(iter) : InRange(SumOf(Prefix(iter, n)), k)

PartialProductsFit(iter, k) ==
    \A n \in 1..Len(iter) : InRange(ProductOf(Prefix(iter, n)), k)

\* C23: checked_sum (checked_product) folds the items strictly left to
\* right from zero (one) with checked_add (checked_mul): None as soon as a
\* partial result is not representable, even when later items would bring
\* the total back into range, and Some(total) otherwise; an empty iterator
\* gives Some(0) (Some(1)); by value and by reference give the same result.
C23_FoldsLeftToRight ==
    /\ op \in {"checked_sum", "checked_sum_ref"} =>
         /\ res = IF PartialSumsFit(a, kT) THEN Some(SumOf(a)) ELSE None
         /\ a = <<>> => res = Some(0)
         /\ res = CheckedSum(a, kT)
         /\ res = CheckedSumRef(a, kT)
    /\ op \in {"checked_product", "checked_product_ref"} =>
         /\ res = IF PartialProductsFit(a, kT) THEN Some(ProductOf(a))
                  ELSE None
         /\ a = <<>> => res = Some(1)
         /\ res = CheckedProduct(a, kT)
         /\ res = CheckedProductRef(a, kT)

\* checked_sum gave None for items whose total is a value of the kind: the
\* model's [120i8, 8, -1], a partial sum of MAX + 1 followed by -1
C23_Witness ==
    /\ op = "checked_sum_ref"
    /\ IsSigned(kT)
    /\ Len(a) = 3
    /\ a[1] + a[2] = MaxOf(kT) + 1
    /\ a[3] = -1
    /\ res = None

(***************************************************************************)
(* ToPrimitive for Wrapping<T>: to_i64 and to_u64 forward to the wrapped   *)
(* value, the ten other methods are the trait's defaults.                  *)
(***************************************************************************)
AllKinds == IntKinds \cup FloatKinds

\* Wrapping<T>::to_i64 / to_u64: self.0.to_i64() / self.0.to_u64()
WrappingToI64(x, t) == ToPrimitive(x, t, "i64")

WrappingToU64(x, t) == ToPrimitive(x, t, "u64")

\* the defaults to_isize, to_i8, to_i16, to_i32:
\*   self.to_i64().and_then(|x| x.to_<dst>())
\* and to_usize, to_u8, to_u16, to_u32:
\*   self.to_u64().and_then(|x| x.to_<dst>())
WrappingToInt(x, t, dst) ==
    CASE dst = "i64" -> WrappingToI64(x, t)
      [] dst = "u64" -> WrappingToU64(x, t)
      [] IsSigned(dst) /\ dst # "i64" ->
           LET m == WrappingToI64(x, t)
           IN  IF m.tag = "None" THEN None ELSE ToPrimitive(m.val, "i64", dst)
      [] OTHER ->
           LET m == WrappingToU64(x, t)
           IN  IF m.tag = "None" THEN None ELSE ToPrimitive(m.val, "u64", dst)

\* self.0.to_i64() beside floats: the range test of the to_i64 of
\* impl_to_primitive_int! and impl_to_primitive_uint! on the spaced widths
WrappingToI64Spaced(x, t) ==
    IF IsSigned(t) \/ SizeOf(t) < SizeOf("i64") \/ x <= SpacedMax("i64")
    THEN Some(x)
    ELSE None

\* the default to_f64: self.to_i64().and_then(|x| x.to_f64())
WrappingToF64(x, t) ==
    LET m == WrappingToI64Spaced(x, t)
    IN  IF m.tag = "None" THEN None ELSE ToIntToFloat(m.val, "i64", "f64")

\* the default to_f32: self.to_f64().and_then(|x| x.to_f32())
WrappingToF32(x, t) ==
    LET m == WrappingToF64(x, t)
    IN  IF m.tag = "None" THEN None ELSE ToFloatToFloat(m.val, "f64", "f32")

WrappingToFloat(x, t, f) ==
    IF f = "f64" THEN WrappingToF64(x, t) ELSE WrappingToF32(x, t)

WrappingToIntCall ==
    /\ op = "none"
    /\ \E t \in IntKinds, dst \in IntKinds :
         \E x \in ValuesOf(t) :
           Call("wrapping_to", t, dst, x, 0, WrappingToInt(x, t, dst))

WrappingToFloatCall ==
    /\ op = "none"
    /\ \E t \in IntKinds, f \in FloatKinds :
         \E x \in SpacedValues(t) :
           Call("wrapping_to", t, f, x, 0, WrappingToFloat(x, t, f))

NextWrapping == WrappingToIntCall \/ WrappingToFloatCall \/ Return

SpecWrapping == Init /\ [][NextWrapping]_vars

\* C24: Wrapping<T> converts exactly as the wrapped value does: for every
\* integer kind T and every value i of T, Wrapping(i).to_X() equals i.to_X()
\* for each of to_u8 .. to_usize, to_i8 .. to_isize, to_f32 and to_f64.
C24_WrappingConvertsAlike ==
    op = "wrapping_to" =>
        res = IF kU \in FloatKinds THEN ToIntToFloat(a, kT, kU)
              ELSE ToPrimitive(a, kT, kU)

(***************************************************************************)
(* Coerced: macro_impl_coerce! gives every listed kind the two impls       *)
(* Coerced<f32> and Coerced<f64>, and no other.                            *)
(***************************************************************************)
\* macro_impl_coerce!(f32 f64 i8 i16 i32 i64 i128 u8 u16 u32 u64 u128 usize)
CoerceKinds ==
    {"f32", "f64", "i8", "i16", "i32", "i64", "i128",
     "u8", "u16", "u32", "u64", "u128", "usize"}

\* the impls the macro expands to: the pairs <<$ty, F>> of
\* impl Coerced<F> for $ty
CoercedImpls == {<<ty, f>> : ty \in CoerceKinds, f \in FloatKinds}

\* a call of a trait method on a pair of kinds without an impl: the call is
\* rejected at build time
NoImpl == [tag |-> "NoImpl", val |-> 0, val2 |-> 0]

\* the values of a kind beside floats
CoerceValues(k) == IF k \in FloatKinds THEN FloatsOf(k) ELSE SpacedValues(k)

\* coerce_into: self as f32 / self as f64
CoerceInto(x, ty, f) ==
    IF ty \in FloatKinds THEN FloatAsFloat(x, f) ELSE IntAsFloat(x, f)

\* coerce_from: other as $ty
CoerceFrom(other, f, ty) ==
    IF ty \in FloatKinds THEN FloatAsFloat(other, ty)
    ELSE FloatAsInt(other, ty)

\* <T as Coerced<U>>::coerce_into(x), for any two of the kinds
CoerceIntoCall ==
    /\ op = "none"
    /\ \E t \in CoerceKinds, u \in CoerceKinds :
         \E x \in CoerceValues(t) :
           Call("coerce_into", t, u, x, 0,
                IF <<t, u>> \in CoercedImpls THEN Value(CoerceInto(x, t, u))
                ELSE NoImpl)

\* <T as Coerced<U>>::coerce_from(other), for any two of the kinds
CoerceFromCall ==
    /\ op = "none"
    /\ \E t \in CoerceKinds, u \in CoerceKinds :
         \E other \in CoerceValues(u) :
           Call("coerce_from", t, u, other, 0,
                IF <<t, u>> \in CoercedImpls THEN Value(CoerceFrom(other, u, t))
                ELSE NoImpl)

NextCoerce == CoerceIntoCall \/ CoerceFromCall \/ Return

SpecCoerce == Init /\ [][NextCoerce]_vars

\* the value n of an integer, as a value of kind k
OfKind(n, k) == IF k \in FloatKinds THEN Fin(n * Unit) ELSE n

\* C25: Coerced<U> is available for every ordered pair (T, U) of the kinds
\* f32, f64, i8, i16, i32, i64, i128, u8, u16, u32, u64, u128, usize, and
\* coerce_into maps a small value to the numerically equal value of U (the
\* test's 5 is the model's 1, which every kind of the model holds), and
\* u8::MAX to the equal u64.
C25_CoerceEveryPair ==
    op = "coerce_into" =>
        /\ res.tag = "Value"
        /\ a = OfKind(1, kT) => res = Value(OfKind(1, kU))
        /\ (kT = "u8" /\ kU = "u64" /\ a = SpacedMax("u8")) => res = Value(a)

(***************************************************************************)
(* Atomics: fetch_saturating_add is a compare-exchange loop over the       *)
(* standard atomic; the other operations forward to it.  Here the state is *)
(* one atomic (its value in cell) shared by the threads: each thread makes *)
(* one call of fetch_saturating_add, step by step, and budget further      *)
(* calls of fetch_add, store and swap are made around them.                *)
(***************************************************************************)
\* further writes (fetch_add, store, swap) made on one atomic
MaxWrites == 1

\* impl_atomic_trait!: one signed and one unsigned of the listed kinds
AtomicKinds == {"i8", "u8"}

\* core::sync::atomic::Ordering
Orderings == {"Relaxed", "Release", "Acquire", "AcqRel", "SeqCst"}

\* the values handed to the calls on an atomic of kind k: both ends of the
\* kind and a step either way
Operands(k) == {MinOf(k), MaxOf(k), 1} \cup (IF IsSigned(k) THEN {-1} ELSE {})

\* <$atomic>::load(self, order): a load has no Release or AcqRel ordering
\* and panics when given one
Load(cur, order) ==
    IF order \in {"Release", "AcqRel"} THEN Panic ELSE Value(cur)

\* a mutant: the exchange is made without comparing
CompareExchangeWeak_Blind(cur, current, new, success, failure, spurious) ==
    [tag |-> "Ok", val |-> current, stored |-> new]

\* <$atomic>::compare_exchange_weak(self, current, new, success, failure) on
\* an atomic that holds cur, in one step: a failure ordering of Release or
\* AcqRel panics; the exchange is made when cur = current, unless it fails
\* spuriously; a failure reports the value the atomic holds
CompareExchangeWeak(cur, current, new, success, failure, spurious) ==
    IF failure \in {"Release", "AcqRel"}
    THEN [tag |-> "Panic", val |-> 0, stored |-> cur]
    ELSE IF cur = current /\ ~spurious
    THEN [tag |-> "Ok", val |-> cur, stored |-> new]
    ELSE [tag |-> "Err", val |-> cur, stored |-> cur]

\* base.saturating_add(value)
SaturatingAdd(x, y, k) ==
    IF x + y > MaxOf(k) THEN MaxOf(k)
    ELSE IF x + y < MinOf(k) THEN MinOf(k)
    ELSE x + y

\* a mutant: the retry keeps the value it had read before
RetryBase_Keep(base, reported) == base

\* Err(val) => { base = val; }
RetryBase(base, reported) == reported

\* Atomic::new(value)
AtomicNew ==
    /\ op = "none"
    /\ \E k \in AtomicKinds :
         \E v \in ValuesOf(k) :
           /\ op' = "atomic"
           /\ kT' = k
           /\ kU' = k
           /\ cell' = v
           /\ budget' = MaxWrites
    /\ UNCHANGED <<tpw, ovf, a, b, res, thr>>

\* fetch_saturating_add(value, order) up to its first access:
\*   let mut base = <$atomic>::load(self, order);
FetchSaturatingAddLoad(t) ==
    /\ op = "atomic"
    /\ thr[t].pc = "idle"
    /\ \E v \in Operands(kT), o \in Orderings :
         LET r == Load(cell, o)
         IN  thr' = [thr EXCEPT ![t] =
                        IF r.tag = "Panic"
                        THEN [Idle EXCEPT !.pc = "panicked", !.order = o]
                        ELSE [pc |-> "cas", value |-> v, order |-> o,
                              base |-> r.val, ret |-> 0]]
    /\ UNCHANGED <<tpw, ovf, op, kT, kU, a, b, res, cell, budget>>

\* one turn of the loop:
\*   let new = base.saturating_add(value);
\*   match compare_exchange_weak(self, base, new, order, order) {
\*       Ok(val) => return val, Err(val) => base = val }
FetchSaturatingAddCas(t) ==
    /\ op = "atomic"
    /\ thr[t].pc = "cas"
    /\ \E spurious \in BOOLEAN :
         LET me == thr[t]
             new == SaturatingAdd(me.base, me.value, kT)
             r == CompareExchangeWeak(cell, me.base, new, me.order, me.order,
                                      spurious)
         IN  /\ cell' = r.stored
             /\ thr' = [thr EXCEPT ![t] =
                          CASE r.tag = "Ok" ->
                                 [Idle EXCEPT !.pc = "done", !.ret = r.val]
                            [] r.tag = "Err" ->
                                 [me EXCEPT !.base = RetryBase(me.base, r.val)]
                            [] OTHER ->
                                 [Idle EXCEPT !.pc = "panicked",
                                              !.order = me.order]]
    /\ UNCHANGED <<tpw, ovf, op, kT, kU, a, b, res, budget>>

\* fetch_add(value, order) by some other thread: the sum wraps
FetchAddCall ==
    /\ op = "atomic"
    /\ budget > 0
    /\ \E v \in Operands(kT) : cell' = AsCast(cell + v, kT)
    /\ budget' = budget - 1
    /\ UNCHANGED <<tpw, ovf, op, kT, kU, a, b, res, thr>>

\* store(value, order) by some other thread, with an ordering store accepts
StoreCall ==
    /\ op = "atomic"
    /\ budget > 0
    /\ \E v \in Operands(kT) : cell' = v
    /\ budget' = budget - 1
    /\ UNCHANGED <<tpw, ovf, op, kT, kU, a, b, res, thr>>

\* swap(new, order) by some other thread
SwapCall ==
    /\ op = "atomic"
    /\ budget > 0
    /\ \E v \in Operands(kT) : cell' = v
    /\ budget' = budget - 1
    /\ UNCHANGED <<tpw, ovf, op, kT, kU, a, b, res, thr>>

NextAtomic ==
    \/ AtomicNew
    \/ \E t \in Threads : FetchSaturatingAddLoad(t)
    \/ \E t \in Threads : FetchSaturatingAddCas(t)
    \/ FetchAddCall
    \/ StoreCall
    \/ SwapCall
    \/ Return

\* nothing in the atomics reads the pointer width or the overflow checks of
\* the build: one build is followed
InitAtomic == Init /\ tpw = 8 /\ ovf = "panic"

SpecAtomic == InitAtomic /\ [][NextAtomic]_vars

\* the step in which thread t's compare-exchange succeeds: nothing else takes
\* a thread from the loop to its return
CasSucceeds(t) == thr[t].pc = "cas" /\ thr'[t].pc = "done"

\* C26: fetch_saturating_add is atomic under concurrency: in every
\* interleaving with other fetch_saturating_add, fetch_add, store and swap
\* calls, the call returns the value p the atomic held at the instant of its
\* successful compare-exchange and replaces it with saturating_add(p, value)
\* in that same step, so nothing is computed from a stale read and the
\* stored value never wraps past MIN or MAX because of this call; a step of
\* the call that does not succeed leaves the live atomic as it was.
C26_SaturatingAddIsAtomic ==
    [][\A t \in Threads :
         /\ CasSucceeds(t) =>
              /\ thr'[t].ret = cell
              /\ cell' = SaturatingAdd(cell, thr[t].value, kT)
              /\ InRange(cell', kT)
              /\ (cell + thr[t].value > MaxOf(kT)) => cell' = MaxOf(kT)
              /\ (cell + thr[t].value < MinOf(kT)) => cell' = MinOf(kT)
         /\ (op' = "atomic" /\ thr'[t] # thr[t] /\ ~CasSucceeds(t)) =>
              cell' = cell]_vars

\* a call that read the atomic before another fetch_saturating_add changed
\* it: the one has returned, the other holds a stale base and a sum that
\* would overwrite the first update
C26_Witness ==
    /\ op = "atomic"
    /\ thr["t1"].pc = "done"
    /\ thr["t2"].pc = "cas"
    /\ thr["t2"].base = thr["t1"].ret
    /\ thr["t2"].base # cell
    /\ SaturatingAdd(thr["t2"].base, thr["t2"].value, kT) # cell

(***************************************************************************)
(* The carries of the u128 schoolbook multiplication.                      *)
(***************************************************************************)
\* the halves of a u128 operand
HighHalf(x) == x \div Pow2(HalfBits)

LowHalf(x) == x % Pow2(HalfBits)

\* the partial sums of widening_mul(x, y), computed without any wrapping:
\*   l4 = x_low * y_low, l5 = x_high * y_low + (l4 >> 64),
\*   l6 = x_low * y_high + (l5 & mask),
\*   l7 = x_high * y_high + (l5 >> 64) + (l6 >> 64)
ExactL4(x, y) == LowHalf(x) * LowHalf(y)

ExactL5(x, y) == HighHalf(x) * LowHalf(y) + HighHalf(ExactL4(x, y))

ExactL6(x, y) == LowHalf(x) * HighHalf(y) + LowHalf(ExactL5(x, y))

ExactL7(x, y) ==
    HighHalf(x) * HighHalf(y) + HighHalf(ExactL5(x, y))
        + HighHalf(ExactL6(x, y))

\* C27: in the u128 schoolbook widening_mul no wrapping_mul, wrapping_add or
\* wrapping_shl step discards a carry: each partial product plus the carry
\* added to it (l5, l6) stays below 2^128 and so does the high word, so
\* every wrapping step returns the exact value and the shifts are by less
\* than the word; and the result is symmetric in its operands.
C27_NoCarryDiscarded ==
    op = "widening_mul_u128" =>
        /\ ExactL4(a, b) < Pow2(U128Bits)
        /\ ExactL5(a, b) < Pow2(U128Bits)
        /\ ExactL6(a, b) < Pow2(U128Bits)
        /\ ExactL7(a, b) < Pow2(U128Bits)
        /\ WrappingMul128(LowHalf(a), LowHalf(b)) = ExactL4(a, b)
        /\ WrappingAdd128(WrappingMul128(LowHalf(b), HighHalf(a)),
                          WrappingShr128(ExactL4(a, b), HalfBits))
             = ExactL5(a, b)
        /\ WrappingAdd128(WrappingMul128(LowHalf(a), HighHalf(b)),
                          BitAnd(ExactL5(a, b), LOW_MASK, U128Bits))
             = ExactL6(a, b)
        /\ WrappingAdd128(WrappingAdd128(
                              WrappingMul128(HighHalf(a), HighHalf(b)),
                              HighHalf(ExactL5(a, b))),
                          WrappingShr128(ExactL6(a, b), HalfBits))
             = ExactL7(a, b)
        /\ WrappingShl128(ExactL6(a, b), HalfBits)
             = LowHalf(ExactL6(a, b)) * Pow2(HalfBits)
        /\ HalfBits < U128Bits
        /\ res = Pair(WrappingShl128(ExactL6(a, b), HalfBits)
                          + LowHalf(ExactL4(a, b)),
                      ExactL7(a, b))
        /\ res = WideningMulU128(b, a)

\* the operands that make l5 as large as it gets, 2^128 - 2^64 - 1: both
\* halves of x and the low half of y all ones
C27_Witness ==
    /\ op = "widening_mul_u128"
    /\ a = U128Max
    /\ b = LOW_MASK
    /\ ExactL5(a, b) = Pow2(U128Bits) - Pow2(HalfBits) - 1
    /\ res = Pair(U128Max - LOW_MASK + 1, LOW_MASK - 1)

(***************************************************************************)
(* checked_product and the order of the items.                             *)
(***************************************************************************)
\* the rearrangements of 1..n, for every length of iterator
IndexPerms ==
    [n \in 0..MaxLen |->
        {f \in [1..n -> 1..n] : \A i, j \in 1..n : f[i] = f[j] => i = j}]

\* the iterators that yield the items of iter in some order
Reorderings(iter) ==
    {[i \in 1..Len(iter) |-> iter[f[i]]] : f \in IndexPerms[Len(iter)]}

NoZeroItem(iter) == \A i \in 1..Len(iter) : iter[i] # 0

\* C28: when no item is zero, whether checked_product returns None does not
\* depend on the order of the items, for every integer kind, the signed
\* ones included; and when it is Some, the value is the same for every
\* order.
C28_OrderIndependentWithoutZero ==
    op \in {"checked_product", "checked_product_ref"} =>
        \A other \in Reorderings(a) :
            LET r == CheckedProduct(other, kT)
            IN  /\ NoZeroItem(a) => (r = None <=> res = None)
                /\ (r.tag = "Some" /\ res.tag = "Some") => r = res

\* C28 as the code has it: without a zero item the outcome is the same for
\* every order unless the exact product is MIN of a signed kind; there the
\* order decides: the call is None exactly when a partial product reaches
\* MAX + 1 before a later -1 brings it back to MIN.  Whenever two orders
\* both give Some, they give the same value, the exact product.
C28_OrderMattersOnlyAtMin ==
    op \in {"checked_product", "checked_product_ref"} =>
        /\ \A other \in Reorderings(a) :
             LET r == CheckedProduct(other, kT)
             IN  /\ (NoZeroItem(a) /\ ~(IsSigned(kT) /\ ProductOf(a) = MinOf(kT)))
                       => r = res
                 /\ (r.tag = "Some" /\ res.tag = "Some") => r = res
        /\ res.tag = "Some" => res.val = ProductOf(a)
        /\ (NoZeroItem(a) /\ IsSigned(kT) /\ ProductOf(a) = MinOf(kT)) =>
             (res = None <=>
                \E n \in 1..Len(a) : ProductOf(Prefix(a, n)) = MaxOf(kT) + 1)

\* a signed product without a zero item that is None in the order given and
\* Some(MIN) with the last two items exchanged: the model's [2i8, 64, -1]
C28_Witness ==
    /\ op = "checked_product"
    /\ IsSigned(kT)
    /\ Len(a) = 3
    /\ NoZeroItem(a)
    /\ a[3] = -1
    /\ res = None
    /\ CheckedProduct(<<a[1], a[3], a[2]>>, kT) = Some(MinOf(kT))

(***************************************************************************)
(* Termination of the compare-exchange loop.                               *)
(***************************************************************************)
\* every thread inside the loop gets to make its next attempt, and
\* compare_exchange_weak does not fail spuriously for ever: a spurious
\* failure leaves the state as it was, so weak fairness of the attempt asks
\* for an attempt that succeeds or learns a new value.  The other threads
\* write finitely often: one call of fetch_saturating_add each and budget
\* further writes.
SpecAtomicLive ==
    /\ InitAtomic
    /\ [][NextAtomic]_vars
    /\ \A t \in Threads : WF_vars(FetchSaturatingAddCas(t))

\* C29: fetch_saturating_add terminates: the loop returns as soon as one
\* compare_exchange_weak succeeds, and one does succeed after finitely many
\* retries when the other threads write finitely often and the weak
\* exchange does not fail spuriously for ever; a call that meets no
\* interference fails only spuriously (while the atomic holds the value the
\* call has read, its only change is to return); each failed attempt
\* retries with exactly the value the failed exchange reported.
C29_LoopTerminates ==
    /\ \A t \in Threads : (thr[t].pc = "cas") ~> (thr[t].pc = "done")
    /\ [][\A t \in Threads :
            /\ (thr[t].pc = "idle" /\ thr'[t].pc = "cas") =>
                 thr'[t].base = cell'
            /\ (thr[t].pc = "cas" /\ thr'[t].pc = "cas"
                  /\ thr'[t] # thr[t]) =>
                 /\ thr[t].base # cell
                 /\ thr'[t] = [thr[t] EXCEPT !.base = cell]
                 /\ cell' = cell
            /\ (thr[t].pc = "cas" /\ thr[t].base = cell
                  /\ thr'[t] # thr[t]) =>
                 /\ CasSucceeds(t)
                 /\ thr'[t].ret = thr[t].base]_vars

\* a call that has to retry: the other thread's call has returned, no
\* further write is left, and the value this call has read is stale
C29_Witness ==
    /\ op = "atomic"
    /\ budget = 0
    /\ thr["t2"].pc = "done"
    /\ thr["t1"].pc = "cas"
    /\ thr["t1"].base # cell

(***************************************************************************)
(* The orderings fetch_saturating_add is called with.                      *)
(***************************************************************************)
\* C30: fetch_saturating_add completes without panicking for every memory
\* ordering that fetch_add accepts (Relaxed, Acquire, Release, AcqRel,
\* SeqCst), although it hands the caller's one ordering to the initial load
\* and to both orderings of compare_exchange_weak.
C30_NoPanicForAnyOrdering ==
    \A t \in Threads : thr[t].pc # "panicked"

\* where the call does panic: at its first access, the load, and exactly for
\* the two orderings a load does not have
PanicsOnlyAtReleaseLoad ==
    /\ \A t \in Threads :
         thr[t].pc = "panicked" => thr[t].order \in {"Release", "AcqRel"}
    /\ \A t \in Threads :
         thr[t].pc \in {"cas", "done"} =>
             thr[t].order \in {"Relaxed", "Acquire", "SeqCst"}

====
